---------------------------- MODULE Spec2Model ----------------------------
(***************************************************************************)
(* sngrep: dissector tree construction and dispatch (parser.c), HEP        *)
(* listener and HEP sender (capture_hep.c), settings accessors (setting.c) *)
(* and SIP message helpers (message.c).                                    *)
(***************************************************************************)
EXTENDS Integers, Sequences, FiniteSets, TLC

VARIABLES
    settings,   \* setting name -> string value (settings->values)
    nsets,      \* number of "set" lines applied after the defaults
    build,      \* build and host: [ssl, ipv6, little_endian]
    parser,     \* PacketParser: [dissectors, ninit, nodes, current]
    hepin,      \* CaptureInputHep construction result
    trace,      \* dissect calls and returns of the last dispatch
    nrecv,      \* datagrams received by the listener
    hepout,     \* CaptureOutputHep construction result
    wire,       \* the last datagram sent by the HEP output, if any
    env,        \* what the socket calls of the constructor met:
                \* [sock: g_socket_new worked, peer: bind/connect worked]
    msgs,       \* call->msgs: the messages of one call, in arrival order
    msgq,       \* the last msg_is_initial_transaction call and its result
    helper,     \* the last call of another message helper and its result
    store,      \* packets and Messages alive or freed: [packets, messages]
    sock,       \* the listener's socket: datagrams waiting and handled
    conf,       \* what settings_init is given: options, environment, files
    proc,       \* the process: exit code if it ended, last setting call
    ui,         \* the call list window: the prompt its handler waits in
    calls,      \* the storage's calls, and the call list's groups of them
    ipdata,     \* the IP dissector's table of datagrams being reassembled
    nav,        \* a traversal of a call group's messages
    tree,       \* tree construction: [root, subs, stack]
    hepbuf,     \* the last capture_output_hep_write: [called, pkt, data, sent]
    togg,       \* the calls of setting_toggle: [id, orig, before, n]
    clw         \* the call list window: cursor, scroll, displayed calls

vars == <<settings, nsets, build, parser, hepin, trace, nrecv, hepout, wire,
          env, msgs, msgq, helper, store, sock,
          conf, proc, ui, calls,
          ipdata,
          nav,
          tree,
          hepbuf,
          togg,
          clw>>

\* The HEP sender's state
outVars == <<hepout, wire>>

\* The storage's state
msgVars == <<msgs, msgq, helper, store>>

\* No msg_is_initial_transaction call has been made on the current list
NoQuery == [asked |-> FALSE]

\* No other message helper has been called on the current list
NoCall == [fn |-> "none"]

\* No packet has been created and no Message allocated
EmptyStore == [packets |-> <<>>, messages |-> <<>>]

\* No datagram has arrived
EmptySocket == [queue |-> <<>>, handled |-> <<>>, failed |-> FALSE]

\* The process, which both reads settings and may exit
startVars ==
    <<conf, proc, ui, calls, ipdata, nav, tree, hepbuf, togg, clw>>

\* The call list is shown, no prompt is open, and quitting asks first
NoPrompt == [prompt |-> "none", closed |-> FALSE, exitprompt |-> TRUE]

\* No call flow window is open
NoFlow == [open |-> FALSE, callid |-> 0, linked |-> {}, group |-> {}]

\* An empty storage under an empty call list: no call stored, none evicted,
\* none selected. Calls are named by the arrival number of their Call-ID.
NoCalls ==
    [limit |-> 0, list |-> <<>>, xcalls |-> {}, group |-> {},
     flow |-> NoFlow, evicted |-> {}, ingested |-> 0]

\* No group is being traversed
NoNav ==
    [msgs |-> <<>>, group |-> {}, sdp_only |-> FALSE, cur |-> 0,
     visited |-> <<>>, back |-> <<>>, done |-> FALSE,
     probe |-> [asked |-> FALSE, msg |-> 0, next |-> 0, prev |-> 0]]

\* The protocols of the trees built from a drawn child relation
TreeProtos == {"IP", "UDP", "SIP"}

\* No tree is under construction
NoTree ==
    [root |-> "NULL", subs |-> [id \in TreeProtos |-> <<>>], stack |-> <<>>]

\* capture_output_hep_write has built no buffer
NoBuffer == [id |-> "NULL", length |-> 0, chunks |-> <<>>]

\* capture_output_hep_write has not been called
NoWrite ==
    [called |-> FALSE, pkt |-> "NULL", data |-> NoBuffer, sent |-> FALSE]

\* setting_toggle has not been called
NoToggle == [id |-> "NULL", orig |-> "", before |-> "", n |-> 0]

\* No call has been read through the cursor of the call list
NoRead == [done |-> FALSE, inside |-> FALSE, held |-> FALSE]

\* The call list window before its first draw
NoWin ==
    [cur_idx |-> 0, pos |-> 0, dcalls |-> <<>>, autoscroll |-> FALSE,
     asc |-> TRUE, listh |-> 1, steps |-> 4, filter |-> "", read |-> NoRead]

\* The IP dissector has handed nothing to its children
NoUpstream ==
    [called |-> FALSE, id |-> 0, len |-> 0, seen |-> 0, more |-> FALSE,
     fragments |-> {}]

\* An empty reassembly table
NoAssembly == [assembly |-> {}, upstream |-> NoUpstream]

\* A resource file that does not exist
NoFile == [missing |-> TRUE, lines |-> <<>>]

\* settings_init is given no option, no environment and no file
NoConf ==
    [inited |-> TRUE,
     use_defaults |-> FALSE, file |-> FALSE, SNGREPRC |-> FALSE,
     homedir |-> FALSE,
     files |-> [etc |-> NoFile, local |-> NoFile, env |-> NoFile,
                home |-> NoFile, opt |-> NoFile]]

\* The process runs and no setting_set_value call has been recorded
Running == [exit |-> -1, set |-> FALSE, id |-> "", value |-> ""]

(***************************************************************************)
(* Bounds                                                                  *)
(***************************************************************************)
MaxSettingChanges == 2
MaxDecisions == 3
MaxBuf == 1
MaxRecv == 2
MaxPayloadLen == 2
BigPayloadLen == 65400
HugePayloadLen == 65500
OverPayloadLen == 65530

(***************************************************************************)
(* Settings (setting.c)                                                    *)
(***************************************************************************)
PacketSettings ==
    {"capture.packet.ip", "capture.packet.udp", "capture.packet.tcp",
     "capture.packet.tls", "capture.packet.hep", "capture.packet.ws",
     "capture.packet.sip", "capture.packet.sdp", "capture.packet.rtp",
     "capture.packet.rtcp"}

HepListenSettings == {"eep.listen.version", "eep.listen.address"}

HepSendSettings == {"eep.send.version", "eep.send.address", "eep.send.pass",
                    "eep.send.id"}

SettingNames == PacketSettings \cup HepListenSettings \cup HepSendSettings

\* Default values installed by settings_init
SettingDefaults ==
    [n \in SettingNames |->
        CASE n = "capture.packet.ip"   -> "on"
          [] n = "capture.packet.udp"  -> "on"
          [] n = "capture.packet.tcp"  -> "on"
          [] n = "capture.packet.tls"  -> "off"
          [] n = "capture.packet.hep"  -> "off"
          [] n = "capture.packet.ws"   -> "off"
          [] n = "capture.packet.sip"  -> "on"
          [] n = "capture.packet.sdp"  -> "on"
          [] n = "capture.packet.rtp"  -> "on"
          [] n = "capture.packet.rtcp" -> "on"
          [] n = "eep.listen.version"  -> "3"
          [] n = "eep.listen.address"  -> "0.0.0.0"
          [] n = "eep.send.version"    -> "3"
          [] n = "eep.send.address"    -> "127.0.0.1"
          [] n = "eep.send.pass"       -> ""
          [] n = "eep.send.id"         -> "2000"]

\* Values a "set" line of a resource file may give to a setting
SettingValues(n) ==
    IF n \in PacketSettings THEN {"on", "off", "yes"}
    ELSE IF n \in {"eep.listen.address", "eep.send.address"}
         THEN {"0.0.0.0", "127.0.0.1", "nohost", ""}
    ELSE IF n = "eep.send.pass" THEN {"", "k", "key"}
    ELSE IF n = "eep.send.id" THEN {"2000", "70000", ""}
    ELSE {"2", "3", "4", ""}

setting_has_value(s, id, value) == s[id] = value

setting_enabled(s, id) ==
    setting_has_value(s, id, "on") \/ setting_has_value(s, id, "yes")

\* g_atoi of the strings used here
g_atoi(str) ==
    CASE str = "2" -> 2
      [] str = "3" -> 3
      [] str = "4" -> 4
      [] str = "2000" -> 2000
      [] str = "70000" -> 70000
      [] OTHER -> 0

setting_get_value_raw(s, id) == s[id]

\* NULL is modelled as the string "NULL" where a pointer to a string is meant
setting_get_value(s, id) == IF Len(s[id]) # 0 THEN s[id] ELSE "NULL"

setting_get_intvalue(s, id) ==
    IF Len(s[id]) # 0 THEN g_atoi(s[id]) ELSE -1

\* The size of the value buffer of a Setting
SETTING_MAX_LEN == 1024

\* Values too long to write out: they stand for texts of 1023, 1024 and
\* 1025 bytes
LongValues == {"<1023 bytes>", "<1024 bytes>", "<1025 bytes>"}

\* strlen
strlen(str) ==
    CASE str = "<1023 bytes>" -> 1023
      [] str = "<1024 bytes>" -> 1024
      [] str = "<1025 bytes>" -> 1025
      [] OTHER -> Len(str)

\* setting_set_value ends the process with exit(1)
setting_set_value_exits(value) ==
    value # "NULL" /\ ~(strlen(value) < SETTING_MAX_LEN)

\* setting_set_value with the length test off by one
setting_set_value_upto(s, id, value) ==
    IF value # "NULL" /\ strlen(value) <= SETTING_MAX_LEN
    THEN [s EXCEPT ![id] = value]
    ELSE [s EXCEPT ![id] = ""]

\* setting_set_value(id, value): the buffer is zeroed, then the value is
\* copied when there is one and it fits
setting_set_value(s, id, value) ==
    IF value # "NULL" /\ strlen(value) < SETTING_MAX_LEN
    THEN [s EXCEPT ![id] = value]
    ELSE [s EXCEPT ![id] = ""]

(***************************************************************************)
(* Dissector tree construction (parser.c)                                  *)
(***************************************************************************)
Protos == {"LINK", "IP", "UDP", "TCP", "SIP", "SDP", "RTP", "RTCP", "HEP",
           "TLS", "WS"}

\* The enable setting the switch of packet_parser_dissector_init consults
ProtoSetting(id) ==
    CASE id = "IP"   -> "capture.packet.ip"
      [] id = "UDP"  -> "capture.packet.udp"
      [] id = "TCP"  -> "capture.packet.tcp"
      [] id = "SIP"  -> "capture.packet.sip"
      [] id = "SDP"  -> "capture.packet.sdp"
      [] id = "RTP"  -> "capture.packet.rtp"
      [] id = "RTCP" -> "capture.packet.rtcp"
      [] id = "HEP"  -> "capture.packet.hep"
      [] id = "TLS"  -> "capture.packet.tls"
      [] id = "WS"   -> "capture.packet.ws"
      [] OTHER       -> "none"

\* Child protocol ids each dissector registers (packet_*_new)
Subdissectors(id) ==
    CASE id = "LINK" -> <<"IP">>
      [] id = "IP"   -> <<"UDP", "TCP">>
      [] id = "UDP"  -> <<"SIP", "RTP", "RTCP">>
      [] id = "TCP"  -> <<"SIP", "TLS">>
      [] id = "TLS"  -> <<"SIP">>
      [] id = "SIP"  -> <<"SDP">>
      [] id = "HEP"  -> <<"SIP">>
      [] OTHER       -> <<>>

\* packet_parser_new: empty dissector array, a root node without data
packet_parser_new ==
    [dissectors |-> {},
     ninit      |-> [p \in Protos |-> 0],
     nodes      |-> << [data |-> "NULL", parent |-> 0] >>,
     current    |-> 0]

RootNode == 1

\* The switch of packet_parser_dissector_init: TRUE when a dissector
\* instance is created for id
DissectorNewIgnoringSetting(s, b, id) ==
    CASE id = "LINK" -> TRUE
      [] id = "TLS"  -> b.ssl
      [] id = "WS"   -> FALSE
      [] OTHER       -> TRUE

DissectorNew(s, b, id) ==
    CASE id = "LINK" -> TRUE
      [] id = "TLS"  -> b.ssl /\ setting_enabled(s, ProtoSetting(id))
      [] id = "WS"   -> FALSE
      [] OTHER       -> setting_enabled(s, ProtoSetting(id))

\* g_node_new + g_node_append(parent, node): with a NULL parent (0)
\* g_node_append fails its parent != NULL check and returns, and the node
\* is attached nowhere
NodeAppend(p, parent, id) ==
    [p EXCEPT !.nodes = Append(@, [data |-> id, parent |-> parent])]

RECURSIVE DissectorInit(_, _, _, _, _)
RECURSIVE DissectorInitPerNode(_, _, _, _, _)
RECURSIVE DissectorInitChildren(_, _, _, _, _, _)

\* for (l = dissector->subdissectors; l != NULL; l = l->next)
DissectorInitChildren(s, b, p, node, subs, i) ==
    IF i > Len(subs) THEN p
    ELSE DissectorInitChildren(s, b,
            DissectorInit(s, b, p, node, subs[i]), node, subs, i + 1)

\* packet_parser_dissector_init(parser, parent, id): the parser afterwards
\* A construction that creates and initialises a dissector for every node
DissectorInitPerNode(s, b, p, parent, id) ==
    IF ~DissectorNew(s, b, id)
    THEN p
    ELSE LET p1 == [p EXCEPT !.dissectors = @ \cup {id},
                             !.ninit[id] = @ + 1]
             p2 == NodeAppend(p1, parent, id)
             node == Len(p2.nodes)
         IN  DissectorInitChildren(s, b, p2, node, Subdissectors(id), 1)

DissectorInit(s, b, p, parent, id) ==
    IF id \notin p.dissectors /\ ~DissectorNew(s, b, id)
    THEN p
    ELSE LET p1 == IF id \in p.dissectors THEN p
                   ELSE [p EXCEPT !.dissectors = @ \cup {id},
                                  !.ninit[id] = @ + 1]
             p2 == NodeAppend(p1, parent, id)
             node == Len(p2.nodes)
         IN  DissectorInitChildren(s, b, p2, node, Subdissectors(id), 1)

\* g_node_n_children / g_node_nth_child: the children of a node in the order
\* they were appended
Children(nodes, n) ==
    LET idx == {i \in 1..Len(nodes) : nodes[i].parent = n}
        RECURSIVE Sorted(_)
        Sorted(S) == IF S = {} THEN <<>>
                     ELSE LET m == CHOOSE x \in S : \A y \in S : x <= y
                          IN  <<m>> \o Sorted(S \ {m})
    IN  Sorted(idx)


(***************************************************************************)
(* Dispatch (parser.c)                                                     *)
(***************************************************************************)
\* A byte buffer is modelled by its length; NoData is the NULL buffer
NoData == -1

Buffers == 0..MaxBuf

\* What one call of a dissector's dissect does with the buffer it is given:
\*   nodissect  the dissector has no dissect function
\*   none       returns NULL (all data dissected)
\*   same       returns the buffer it was given
\*   rest       consumes one byte and returns the remainder
\*   nested     consumes one byte, hands the remainder to
\*              packet_parser_next_dissector and returns its result
\* The trace of a dispatch lists, in order: "enter" when
\* packet_parser_next_dissector starts iterating the children of a node,
\* "call" and "ret" around each dissect call (with the buffer passed and the
\* buffer returned), "skip" for a child without dissect function.
DissectKinds == {"nodissect", "none", "same", "rest", "nested"}

\* The k-th dissector reached takes the k-th decision; later ones return
\* their buffer unchanged
Decision(dec, k) == IF k <= Len(dec) THEN dec[k] ELSE "same"

Consume(data) == IF data > 0 THEN data - 1 ELSE 0

RECURSIVE NextDissector(_, _, _, _, _)
RECURSIVE NextDissectorLoop(_, _, _, _, _, _, _, _, _)
RECURSIVE NextDissectorLoopNoBreak(_, _, _, _, _, _, _, _, _)
RECURSIVE NextDissectorLoopEntryData(_, _, _, _, _, _, _, _, _)
RECURSIVE NextDissectorLoopFromCursor(_, _, _, _, _, _, _, _, _)

\* The for loop of packet_parser_next_dissector over the children kids of
\* the node that was the cursor at entry; cursor is parser->current
NextDissectorLoopNoBreak(nodes, entry, kids, i, cursor, data, dec, k, tr) ==
    IF i > Len(kids)
    THEN [data |-> data, current |-> cursor, trace |-> tr, k |-> k]
    ELSE LET child == kids[i]
             kind == Decision(dec, k + 1)
             call == [ev |-> "call", node |-> child, parent |-> entry,
                      buf |-> data]
             skip == [ev |-> "skip", node |-> child, parent |-> entry,
                      buf |-> data]
             sub == IF kind = "nested"
                    THEN NextDissector(nodes, child, Consume(data), dec, k + 1)
                    ELSE [data |-> CASE kind = "none" -> NoData
                                     [] kind = "same" -> data
                                     [] OTHER -> Consume(data),
                          current |-> child, trace |-> <<>>, k |-> k + 1]
             ret == [ev |-> "ret", node |-> child, parent |-> entry,
                     buf |-> sub.data]
         IN  IF kind = "nodissect"
             THEN NextDissectorLoopNoBreak(nodes, entry, kids, i + 1, child,
                                    data, dec, k + 1, tr \o <<skip>>)
             ELSE NextDissectorLoopNoBreak(nodes, entry, kids, i + 1,
                                    sub.current, sub.data, dec, sub.k,
                                    tr \o <<call>> \o sub.trace \o <<ret>>)

\* A loop that hands every child the buffer passed at entry, which the
\* first event of tr holds, and returns the last child's result
NextDissectorLoopEntryData(nodes, entry, kids, i, cursor, data, dec, k, tr) ==
    IF i > Len(kids)
    THEN [data |-> data, current |-> cursor, trace |-> tr, k |-> k]
    ELSE LET child == kids[i]
             given == tr[1].buf
             kind == Decision(dec, k + 1)
             call == [ev |-> "call", node |-> child, parent |-> entry,
                      buf |-> given]
             skip == [ev |-> "skip", node |-> child, parent |-> entry,
                      buf |-> given]
             sub == IF kind = "nested"
                    THEN NextDissector(nodes, child, Consume(given), dec, k + 1)
                    ELSE [data |-> CASE kind = "none" -> NoData
                                     [] kind = "same" -> given
                                     [] OTHER -> Consume(given),
                          current |-> child, trace |-> <<>>, k |-> k + 1]
             ret == [ev |-> "ret", node |-> child, parent |-> entry,
                     buf |-> sub.data]
         IN  IF kind = "nodissect"
             THEN NextDissectorLoopEntryData(nodes, entry, kids, i + 1, child,
                                    data, dec, k + 1, tr \o <<skip>>)
             ELSE IF sub.data = NoData
             THEN [data |-> NoData, current |-> sub.current,
                   trace |-> tr \o <<call>> \o sub.trace \o <<ret>>,
                   k |-> sub.k]
             ELSE NextDissectorLoopEntryData(nodes, entry, kids, i + 1,
                                    sub.current, sub.data, dec, sub.k,
                                    tr \o <<call>> \o sub.trace \o <<ret>>)

\* A loop that takes its i-th child from the node the cursor is on
NextDissectorLoopFromCursor(nodes, entry, kids, i, cursor, data, dec, k, tr) ==
    LET now == IF i = 1 THEN kids ELSE Children(nodes, cursor)
    IN  IF i > Len(now)
        THEN [data |-> data, current |-> cursor, trace |-> tr, k |-> k]
        ELSE LET child == now[i]
                 kind == Decision(dec, k + 1)
                 call == [ev |-> "call", node |-> child, parent |-> entry,
                          buf |-> data]
                 skip == [ev |-> "skip", node |-> child, parent |-> entry,
                          buf |-> data]
                 sub == IF kind = "nested"
                        THEN NextDissector(nodes, child, Consume(data), dec,
                                           k + 1)
                        ELSE [data |-> CASE kind = "none" -> NoData
                                         [] kind = "same" -> data
                                         [] OTHER -> Consume(data),
                              current |-> child, trace |-> <<>>, k |-> k + 1]
                 ret == [ev |-> "ret", node |-> child, parent |-> entry,
                         buf |-> sub.data]
             IN  IF kind = "nodissect"
                 THEN NextDissectorLoopFromCursor(nodes, entry, kids, i + 1,
                                        child, data, dec, k + 1,
                                        tr \o <<skip>>)
                 ELSE IF sub.data = NoData
                 THEN [data |-> NoData, current |-> sub.current,
                       trace |-> tr \o <<call>> \o sub.trace \o <<ret>>,
                       k |-> sub.k]
                 ELSE NextDissectorLoopFromCursor(nodes, entry, kids, i + 1,
                                        sub.current, sub.data, dec, sub.k,
                                        tr \o <<call>> \o sub.trace
                                           \o <<ret>>)

NextDissectorLoop(nodes, entry, kids, i, cursor, data, dec, k, tr) ==
    IF i > Len(kids)
    THEN [data |-> data, current |-> cursor, trace |-> tr, k |-> k]
    ELSE LET child == kids[i]
             kind == Decision(dec, k + 1)
             call == [ev |-> "call", node |-> child, parent |-> entry,
                      buf |-> data]
             skip == [ev |-> "skip", node |-> child, parent |-> entry,
                      buf |-> data]
             sub == IF kind = "nested"
                    THEN NextDissector(nodes, child, Consume(data), dec, k + 1)
                    ELSE [data |-> CASE kind = "none" -> NoData
                                     [] kind = "same" -> data
                                     [] OTHER -> Consume(data),
                          current |-> child, trace |-> <<>>, k |-> k + 1]
             ret == [ev |-> "ret", node |-> child, parent |-> entry,
                     buf |-> sub.data]
         IN  IF kind = "nodissect"
             THEN NextDissectorLoop(nodes, entry, kids, i + 1, child,
                                    data, dec, k + 1, tr \o <<skip>>)
             ELSE IF sub.data = NoData
             THEN [data |-> NoData, current |-> sub.current,
                   trace |-> tr \o <<call>> \o sub.trace \o <<ret>>,
                   k |-> sub.k]
             ELSE NextDissectorLoop(nodes, entry, kids, i + 1,
                                    sub.current, sub.data, dec, sub.k,
                                    tr \o <<call>> \o sub.trace \o <<ret>>)

\* packet_parser_next_dissector(parser, packet, data) with parser->current
\* = cur: [data: the result, current: the cursor afterwards, trace, k]
NextDissector(nodes, cur, data, dec, k) ==
    IF data = NoData
    THEN [data |-> NoData, current |-> cur, trace |-> <<>>, k |-> k]
    ELSE NextDissectorLoop(nodes, cur, Children(nodes, cur), 1, cur,
                           data, dec, k,
                           << [ev |-> "enter", node |-> cur, parent |-> cur,
                               buf |-> data] >>)

\* Sequences of at most n decisions
DecisionSeqs(n) == UNION {[1..m -> DissectKinds] : m \in 0..n}

\* The nodes below node n
RECURSIVE Descendants(_, _)
Descendants(nodes, n) ==
    LET kids == {i \in 1..Len(nodes) : nodes[i].parent = n}
    IN  kids \cup UNION {Descendants(nodes, c) : c \in kids}

\* The decision sequences a dispatch from the root can consume: one
\* decision for each dissector reached, at most MaxDecisions of them
DispatchDecisions(nodes) ==
    LET n == Cardinality(Descendants(nodes, RootNode))
    IN  DecisionSeqs(IF n < MaxDecisions THEN n ELSE MaxDecisions)


(***************************************************************************)
(* HEP listener (capture_hep.c)                                            *)
(***************************************************************************)
\* A URL string is given by its colon separated parts; NullUrl is no URL
UrlParts == {<<"udp", "0.0.0.0", "9060">>, <<"tcp", "0.0.0.0", "9060">>,
             <<"udp", "nohost", "9060">>, <<"udp", "0.0.0.0">>,
             <<"udp", "0.0.0.0", "9060", "x">>, <<>>}

NullUrl == [null |-> TRUE, parts |-> <<>>]

Urls == {NullUrl} \cup {[null |-> FALSE, parts |-> u] : u \in UrlParts}

\* g_strsplit(url, ":", max): at most max tokens, the last one holding the
\* unsplit remainder
g_strsplit(url, max) ==
    IF Len(url) <= max THEN url
    ELSE SubSeq(url, 1, max - 1) \o <<"remainder">>

\* capture_hep_parse_url: [ok, host]
capture_hep_parse_url_anyproto(url) ==
    LET tokens == g_strsplit(url.parts, 3)
    IN  IF Len(tokens) # 3 THEN [ok |-> FALSE, host |-> "NULL"]
        ELSE [ok |-> TRUE, host |-> tokens[2]]

capture_hep_parse_url(url) ==
    LET tokens == g_strsplit(url.parts, 3)
    IN  IF Len(tokens) # 3 THEN [ok |-> FALSE, host |-> "NULL"]
        ELSE IF tokens[1] # "udp" THEN [ok |-> FALSE, host |-> "NULL"]
        ELSE [ok |-> TRUE, host |-> tokens[2]]

\* g_inet_socket_address_new_from_string: NULL unless host is an IP literal
ValidAddress(host) == host \in {"0.0.0.0", "127.0.0.1"}

\* state: none (not constructed), ok (object returned), error (NULL
\* returned); socket: none, failed, created, bound
NoInput == [state |-> "none", error |-> "none", source |-> FALSE,
            url |-> NullUrl, version |-> 0, host |-> "NULL",
            socket |-> "none"]

InputError(url, version, host, code, socket) ==
    [state |-> "error", error |-> code, source |-> FALSE,
     url |-> url, version |-> version, host |-> host, socket |-> socket]

\* capture_input_hep(url, error): the listener and the parser afterwards.
\* sockOk and bindOk are the outcomes of g_socket_new and g_socket_bind.
capture_input_hep(s, b, p, url, sockOk, bindOk) ==
    LET version == setting_get_intvalue(s, "eep.listen.version")
        parsed == IF ~url.null THEN capture_hep_parse_url(url)
                  ELSE [ok |-> TRUE,
                        host |-> setting_get_value(s, "eep.listen.address")]
        host == parsed.host
    IN  IF ~parsed.ok
        THEN [hep |-> InputError(url, version, host, "URL_PARSE", "none"),
              parser |-> p]
        ELSE IF version # 2 /\ version # 3
        THEN [hep |-> InputError(url, version, host, "VERSION", "none"),
              parser |-> p]
        ELSE IF ~ValidAddress(host)
        THEN [hep |-> InputError(url, version, host, "URL_PARSE", "none"),
              parser |-> p]
        ELSE IF ~sockOk
        THEN [hep |-> InputError(url, version, host, "SOCKET", "failed"),
              parser |-> p]
        ELSE IF ~bindOk
        THEN [hep |-> InputError(url, version, host, "BIND", "created"),
              parser |-> p]
        ELSE [hep |-> [state |-> "ok", error |-> "none", source |-> TRUE,
                       url |-> url, version |-> version, host |-> host,
                       socket |-> "bound"],
              parser |-> DissectorInit(s, b, p, 0, "HEP")]

(***************************************************************************)
(* HEP sender construction (capture_hep.c)                                 *)
(***************************************************************************)
NoOutput == [state |-> "none", error |-> "none", url |-> NullUrl,
             version |-> 0, password |-> "NULL", id |-> 0, host |-> "NULL",
             socket |-> "none"]

OutputError(o, code, socket) ==
    [o EXCEPT !.state = "error", !.error = code, !.socket = socket]

\* capture_output_hep(url, error): the sender afterwards
capture_output_hep(s, url, sockOk, connOk) ==
    LET parsed == IF ~url.null THEN capture_hep_parse_url(url)
                  ELSE [ok |-> TRUE,
                        host |-> setting_get_value(s, "eep.send.address")]
        o == [state |-> "ok", error |-> "none", url |-> url,
              version |-> setting_get_intvalue(s, "eep.send.version"),
              password |-> setting_get_value(s, "eep.send.pass"),
              id |-> setting_get_intvalue(s, "eep.send.id") % 65536,
              host |-> parsed.host,
              socket |-> "connected"]
    IN  IF ~parsed.ok THEN OutputError(o, "URL_PARSE", "none")
        ELSE IF o.version # 2 /\ o.version # 3
        THEN OutputError(o, "VERSION", "none")
        ELSE IF ~ValidAddress(o.host) THEN OutputError(o, "URL_PARSE", "none")
        ELSE IF ~sockOk THEN OutputError(o, "SOCKET", "failed")
        ELSE IF ~connOk THEN OutputError(o, "CONNECT", "created")
        ELSE o

(***************************************************************************)
(* Actions: configuration, listener construction, datagram reception       *)
(***************************************************************************)
Builds == [ssl : BOOLEAN, ipv6 : BOOLEAN, little_endian : BOOLEAN]

Init ==
    /\ settings = SettingDefaults
    /\ nsets = 0
    /\ build \in {b \in Builds : b.ipv6 /\ b.little_endian}
    /\ parser = packet_parser_new
    /\ hepin = NoInput
    /\ trace = <<>>
    /\ nrecv = 0
    /\ hepout = NoOutput
    /\ wire = <<>>
    /\ env = [sock |-> TRUE, peer |-> TRUE]
    /\ msgs = <<>>
    /\ msgq = NoQuery
    /\ helper = NoCall
    /\ store = EmptyStore
    /\ sock = EmptySocket
    /\ conf = NoConf
    /\ proc = Running
    /\ ui = NoPrompt
    /\ calls = NoCalls
    /\ ipdata = NoAssembly
    /\ clw = NoWin
    /\ togg = NoToggle
    /\ hepbuf = NoWrite
    /\ tree = NoTree
    /\ nav = NoNav

\* A "set <name> <value>" line of a resource file (setting_read_file)
SettingSetValue ==
    /\ hepin.state = "none"
    /\ hepout.state = "none"
    /\ nsets < MaxSettingChanges
    /\ \E n \in SettingNames : \E v \in SettingValues(n) :
          /\ v # settings[n]
          /\ settings' = setting_set_value(settings, n, v)
    /\ nsets' = nsets + 1
    /\ UNCHANGED <<build, parser, hepin, trace, nrecv, outVars, env, msgVars, sock, startVars>>

CaptureInputHep ==
    /\ hepin.state = "none"
    /\ hepout.state = "none"
    /\ \E url \in Urls : \E sockOk, bindOk \in BOOLEAN :
          LET r == capture_input_hep(settings, build, parser, url, sockOk, bindOk)
          IN  /\ hepin' = r.hep
              /\ parser' = r.parser
              /\ env' = [sock |-> sockOk, peer |-> bindOk]
    /\ UNCHANGED <<settings, nsets, build, trace, nrecv, outVars, msgVars, sock, startVars>>

\* packet_parser_dissector_init(parser, parser->dissector_tree, id) as the
\* other capture inputs call it
CaptureInputOther ==
    /\ hepin.state = "none"
    /\ hepout.state = "none"
    /\ \E id \in Protos :
          parser' = DissectorInit(settings, build, parser, RootNode, id)
    /\ hepin' = [NoInput EXCEPT !.state = "other"]
    /\ UNCHANGED <<settings, nsets, build, trace, nrecv, outVars, env, msgVars, sock, startVars>>

\* A receive that leaves the cursor where the last dispatch left it
HepReceiveCursorKept(p) == p.current

\* parser->current = parser->dissector_tree: the node the dispatch of a
\* received datagram starts at
HepReceiveCursor(p) == RootNode

\* capture_input_hep_receive: received is the result of
\* g_socket_receive_from
CaptureInputHepReceive ==
    /\ hepin.state = "ok"
    /\ hepin.source
    /\ nrecv < MaxRecv
    /\ \E received \in {-1} \cup Buffers : \E dec \in DispatchDecisions(parser.nodes) :
          IF received = -1
          THEN /\ hepin' = [hepin EXCEPT !.source = FALSE]
               /\ UNCHANGED <<parser, trace, nrecv>>
          ELSE LET r ==
                      NextDissector(parser.nodes, HepReceiveCursor(parser),
                                    received, dec, 0)
               IN  /\ parser' = [parser EXCEPT !.current = r.current]
                   /\ trace' = r.trace
                   /\ nrecv' = nrecv + 1
                   /\ UNCHANGED hepin
    /\ UNCHANGED <<settings, nsets, build, outVars, env, msgVars, sock, startVars>>

\* capture_output_hep(url, error); sockOk and connOk are the outcomes of
\* g_socket_new and g_socket_connect
CaptureOutputHep ==
    /\ hepin.state = "none"
    /\ hepout.state = "none"
    /\ \E url \in Urls : \E sockOk, connOk \in BOOLEAN :
          /\ hepout' = capture_output_hep(settings, url, sockOk, connOk)
          /\ env' = [sock |-> sockOk, peer |-> connOk]
    /\ UNCHANGED <<settings, nsets, build, parser, hepin, trace, nrecv, wire,
                   msgVars, sock, startVars>>

Next ==
    \/ SettingSetValue
    \/ CaptureInputHep
    \/ CaptureOutputHep
    \/ CaptureInputOther
    \/ CaptureInputHepReceive

Spec == Init /\ [][Next]_vars


(***************************************************************************)
(* Frame dispatch on a parser whose tree is attached under the root        *)
(***************************************************************************)
\* The defaults, or the defaults with one protocol switched off
DispatchSettings ==
    {SettingDefaults} \cup
    {setting_set_value(SettingDefaults, n, "off") :
        n \in {"capture.packet.tcp", "capture.packet.sip", "capture.packet.rtp"}}

\* The protocols a tree is built from
DispatchRoots == {"LINK", "UDP"}

InitDispatch ==
    /\ settings \in DispatchSettings
    /\ nsets = 0
    /\ build = [ssl |-> FALSE, ipv6 |-> TRUE, little_endian |-> TRUE]
    /\ \E id \in DispatchRoots :
          parser = DissectorInit(settings, build, packet_parser_new, RootNode, id)
    /\ hepin = [NoInput EXCEPT !.state = "other"]
    /\ trace = <<>>
    /\ nrecv = 0
    /\ hepout = NoOutput
    /\ wire = <<>>
    /\ env = [sock |-> TRUE, peer |-> TRUE]
    /\ msgs = <<>>
    /\ msgq = NoQuery
    /\ helper = NoCall
    /\ store = EmptyStore
    /\ sock = EmptySocket
    /\ conf = NoConf
    /\ proc = Running
    /\ ui = NoPrompt
    /\ calls = NoCalls
    /\ ipdata = NoAssembly
    /\ clw = NoWin
    /\ togg = NoToggle
    /\ hepbuf = NoWrite
    /\ tree = NoTree
    /\ nav = NoNav

\* A frame handed to the dissectors: the cursor is set to the root and
\* packet_parser_next_dissector is called
CaptureInputFrame ==
    /\ hepin.state = "other"
    /\ \E len \in Buffers : \E dec \in DispatchDecisions(parser.nodes) :
          LET r == NextDissector(parser.nodes, RootNode, len, dec, 0)
          IN  /\ parser' = [parser EXCEPT !.current = r.current]
              /\ trace' = r.trace
    /\ UNCHANGED <<settings, nsets, build, hepin, nrecv, outVars, env, msgVars, sock, startVars>>

NextDispatch == CaptureInputFrame

SpecDispatch == InitDispatch /\ [][NextDispatch]_vars


(***************************************************************************)
(* Properties of tree construction and dispatch                            *)
(***************************************************************************)
\* The protocol has no enable setting, or its setting is on
ProtoEnabled(id) ==
    ProtoSetting(id) = "none" \/ settings[ProtoSetting(id)] \in {"on", "yes"}

TreeNodes == 2..Len(parser.nodes)

\* C1: after tree construction no dissector instance and no tree node
\* (attached or not) belongs to a protocol whose enable setting is off, and
\* so every ancestor of a node is an enabled protocol too.
C1_NoDisabledProtocolInTree ==
    /\ \A id \in parser.dissectors : ProtoEnabled(id)
    /\ \A i \in TreeNodes :
          /\ parser.nodes[i].data \in parser.dissectors
          /\ ProtoEnabled(parser.nodes[i].data)
          /\ parser.nodes[i].parent \in 0..(i - 1)

\* A tree was built from the link layer while UDP was disabled: IP and TCP
\* are in it
C1_Witness ==
    /\ hepin.state = "other"
    /\ settings["capture.packet.udp"] = "off"
    /\ \E i, j \in TreeNodes :
          /\ parser.nodes[i].data = "IP"
          /\ parser.nodes[j].data = "TCP"
          /\ parser.nodes[j].parent = i

\* The nodes of the events of kind kinds with parent p, in trace order
RECURSIVE EventNodes(_, _, _)
EventNodes(tr, p, kinds) ==
    IF tr = <<>> THEN <<>>
    ELSE IF Head(tr).parent = p /\ Head(tr).ev \in kinds
         THEN <<Head(tr).node>> \o EventNodes(Tail(tr), p, kinds)
         ELSE EventNodes(Tail(tr), p, kinds)

\* The buffer child node returned in the trace
Returned(tr, node) ==
    LET i == CHOOSE k \in 1..Len(tr) : tr[k].ev = "ret" /\ tr[k].node = node
    IN  tr[i].buf

Entered(tr) == {tr[k].node : k \in {j \in 1..Len(tr) : tr[j].ev = "enter"}}

Invoked(tr) == {tr[k].node : k \in {j \in 1..Len(tr) : tr[j].ev = "call"}}

\* C2: in every dispatch at a node, the children visited are a prefix of the
\* node's children in registration order; only the last child invoked may
\* have returned none, and the prefix stops short of the last child only
\* when a child returned none.
C2_ChildrenInOrderUntilNone ==
    \A p \in Entered(trace) :
        LET kids == Children(parser.nodes, p)
            seen == EventNodes(trace, p, {"call", "skip"})
            n == Len(seen)
        IN  /\ n <= Len(kids)
            /\ seen = SubSeq(kids, 1, n)
            /\ \A j \in 1..n :
                  (seen[j] \in Invoked(trace) /\ Returned(trace, seen[j]) = NoData)
                      => j = n
            /\ n < Len(kids) =>
                  /\ n > 0
                  /\ seen[n] \in Invoked(trace)
                  /\ Returned(trace, seen[n]) = NoData

\* A dispatch in which a child with later siblings returned none
C2_Witness ==
    \E p \in Entered(trace) :
        LET kids == Children(parser.nodes, p)
            seen == EventNodes(trace, p, {"call", "skip"})
        IN  /\ Len(kids) >= 3
            /\ Len(seen) = 2
            /\ Returned(trace, seen[2]) = NoData

\* C3: once capture_input_hep has returned a listener (with the HEP
\* protocol enabled), the HEP node is a child of the parser's tree root and
\* a received datagram is handed to the HEP dissector.
C3_HepTreeUnderRoot ==
    (hepin.state = "ok" /\ ProtoEnabled("HEP")) =>
        /\ \E i \in TreeNodes :
              parser.nodes[i].data = "HEP" /\ parser.nodes[i].parent = RootNode
        /\ nrecv > 0 =>
              \E k \in 1..Len(trace) :
                  trace[k].ev = "call" /\ parser.nodes[trace[k].node].data = "HEP"


(***************************************************************************)
(* Properties of listener and sender construction                          *)
(***************************************************************************)
\* The URL text has at least three colon separated fields, the first udp
UrlHasForm(url) == Len(url.parts) >= 3 /\ url.parts[1] = "udp"

\* What construction needs: a URL of that form if one is given, version 2
\* or 3, a valid address, and socket calls that worked
ConstructionShouldSucceed(url, versionSetting, addressSetting) ==
    /\ url.null \/ UrlHasForm(url)
    /\ settings[versionSetting] \in {"2", "3"}
    /\ ValidAddress(IF url.null THEN settings[addressSetting] ELSE url.parts[2])
    /\ env.sock
    /\ env.peer

SizeofCtrl == 6
SizeofChunk == 6
SizeofChunkUint8 == SizeofChunk + 1
SizeofChunkUint16 == SizeofChunk + 2
SizeofChunkUint32 == SizeofChunk + 4
SizeofChunkIp4 == SizeofChunk + 4
SizeofChunkIp6 == SizeofChunk + 16

\* sizeof(CaptureHepGeneric): header, ip_family, ip_proto, src_port,
\* dst_port, time_sec, time_usec, proto_t, capt_id
SizeofGeneric ==
    SizeofCtrl + SizeofChunkUint8 + SizeofChunkUint8 + SizeofChunkUint16
    + SizeofChunkUint16 + SizeofChunkUint32 + SizeofChunkUint32
    + SizeofChunkUint8 + SizeofChunkUint32

AF_INET == 2
AF_INET6 == 10

\* The largest datagram g_socket_send can hand to a UDP socket over IPv4
MaxUdpPayload == 65507

\* Values as they read on the wire in network byte order: a 16 bit field
\* keeps the low 16 bits; the 32 bit values written here (seconds,
\* microseconds) fit their field
htons(v) == v % 65536
htonl(v) == v

\* inet_pton of the address texts used here
inet_pton(text) ==
    CASE text = "10.0.0.1" -> <<10, 0, 0, 1>>
      [] text = "10.0.0.2" -> <<10, 0, 0, 2>>
      [] text = "::1"      -> <<0, 0, 0, 0, 0, 0, 0, 0, 0, 0, 0, 0, 0, 0, 0, 1>>
      [] text = "fe80::1"  -> <<254, 128, 0, 0, 0, 0, 0, 0, 0, 0, 0, 0, 0, 0, 0, 1>>

\* The IP versions a packet may carry in this build
IpVersions(b) == IF b.ipv6 THEN {4, 6} ELSE {4}

NoIp == [present |-> FALSE, version |-> 0, protocol |-> 0,
         srcip |-> "", dstip |-> ""]
NoUdp == [present |-> FALSE, sport |-> 0, dport |-> 0]
NoSip == [present |-> FALSE, payload |-> 0]

IpDatas(b) ==
    {NoIp} \cup
    {[present |-> TRUE, version |-> v, protocol |-> 17,
      srcip |-> IF v = 4 THEN "10.0.0.1" ELSE "fe80::1",
      dstip |-> IF v = 4 THEN "10.0.0.2" ELSE "::1"] : v \in IpVersions(b)}

UdpDatas ==
    {NoUdp, [present |-> TRUE, sport |-> 5060, dport |-> 5060],
     [present |-> TRUE, sport |-> 40000, dport |-> 5060]}

\* strlen(sip->payload)
PayloadLens ==
    (0..MaxPayloadLen) \cup {BigPayloadLen, HugePayloadLen, OverPayloadLen}

SipDatas ==
    {NoSip} \cup {[present |-> TRUE, payload |-> n] : n \in PayloadLens}

\* A packet as capture_output_hep_write reads it: the layer data and the
\* timestamp of its first frame
Packets(b) ==
    [ip : IpDatas(b), udp : UdpDatas, sip : SipDatas,
     ts : {[sec |-> 1700000000, usec |-> 123456]}]

\* A chunk: the three header fields as they read on the wire, the bytes it
\* occupies in the buffer and its data
Chunk(type, length, size, data) ==
    [vendor |-> htons(0), type |-> htons(type), length |-> htons(length),
     size |-> size, data |-> data]

\* hg->capt_id.data = g_htons(hep->id), stored in a 32 bit field
CaptIdWire(b, id) == IF b.little_endian THEN htons(id) * 65536 ELSE htons(id)

\* The chunks held in the CaptureHepGeneric structure
GenericChunks(b, hep, pkt) ==
    << Chunk(1, SizeofChunkUint8, SizeofChunkUint8,
             IF pkt.ip.version = 4 THEN AF_INET ELSE AF_INET6),
       Chunk(2, SizeofChunkUint8, SizeofChunkUint8, pkt.ip.protocol % 256),
       Chunk(7, SizeofChunkUint16, SizeofChunkUint16, htons(pkt.udp.sport)),
       Chunk(8, SizeofChunkUint16, SizeofChunkUint16, htons(pkt.udp.dport)),
       Chunk(9, SizeofChunkUint32, SizeofChunkUint32, htonl(pkt.ts.sec)),
       Chunk(10, SizeofChunkUint32, SizeofChunkUint32, htonl(pkt.ts.usec)),
       Chunk(11, SizeofChunkUint8, SizeofChunkUint8, 1),
       Chunk(12, SizeofChunkUint32, SizeofChunkUint32, CaptIdWire(b, hep.id)) >>

\* The source and destination address chunks appended after the structure
IpChunksSourceOnly(b, ip) ==
    IF ip.version = 4
    THEN << Chunk(3, SizeofChunkIp4, SizeofChunkIp4, inet_pton(ip.srcip)) >>
    ELSE IF b.ipv6 /\ ip.version = 6
    THEN << Chunk(5, SizeofChunkIp6, SizeofChunkIp6, inet_pton(ip.srcip)) >>
    ELSE <<>>

IpChunks(b, ip) ==
    IF ip.version = 4
    THEN << Chunk(3, SizeofChunkIp4, SizeofChunkIp4, inet_pton(ip.srcip)),
            Chunk(4, SizeofChunkIp4, SizeofChunkIp4, inet_pton(ip.dstip)) >>
    ELSE IF b.ipv6 /\ ip.version = 6
    THEN << Chunk(5, SizeofChunkIp6, SizeofChunkIp6, inet_pton(ip.srcip)),
            Chunk(6, SizeofChunkIp6, SizeofChunkIp6, inet_pton(ip.dstip)) >>
    ELSE <<>>

\* ip_len
IpLen(b, ip) ==
    IF ip.version = 4 THEN SizeofChunkIp4 + SizeofChunkIp4
    ELSE IF b.ipv6 /\ ip.version = 6 THEN SizeofChunkIp6 + SizeofChunkIp6
    ELSE 0

\* The authorization key chunk and the password bytes after it
AuthChunks(hep) ==
    IF hep.password # "NULL"
    THEN << Chunk(14, SizeofChunk + Len(hep.password),
                  SizeofChunk + Len(hep.password), hep.password) >>
    ELSE <<>>

\* The payload chunk and the payload bytes after it
PayloadChunks(sip) ==
    << Chunk(15, SizeofChunk + sip.payload, SizeofChunk + sip.payload,
             sip.payload) >>

\* total_len
TotalLenWithoutPassword(b, hep, pkt) ==
    SizeofGeneric + pkt.sip.payload + IpLen(b, pkt.ip) + SizeofChunk
    + (IF hep.password # "NULL" THEN SizeofChunk ELSE 0)

TotalLen(b, hep, pkt) ==
    SizeofGeneric + pkt.sip.payload + IpLen(b, pkt.ip) + SizeofChunk
    + (IF hep.password # "NULL" THEN SizeofChunk + Len(hep.password) ELSE 0)

\* The buffer handed to g_socket_send
HepBuffer(b, hep, pkt) ==
    [id |-> "HEP3",
     length |-> htons(TotalLen(b, hep, pkt)),
     chunks |-> GenericChunks(b, hep, pkt) \o IpChunks(b, pkt.ip)
                \o AuthChunks(hep) \o PayloadChunks(pkt.sip)]

RECURSIVE SumSizes(_)
SumSizes(chunks) ==
    IF chunks = <<>> THEN 0 ELSE Head(chunks).size + SumSizes(Tail(chunks))

\* data->len: the bytes in the buffer
BufferLen(d) == SizeofCtrl + SumSizes(d.chunks)

\* g_socket_send: -1 for a datagram above the UDP limit, or when the
\* network refuses it (netOk false)
SocketSendOk(d, netOk) == netOk /\ BufferLen(d) <= MaxUdpPayload

\* The defaults with the sender's version, password and id as a resource
\* file may set them
HepOutSettings ==
    {[SettingDefaults EXCEPT !["eep.send.version"] = v,
                             !["eep.send.pass"] = pw,
                             !["eep.send.id"] = id] :
        v \in {"2", "3"}, pw \in {"", "k", "key"}, id \in {"2000", "70000"}}

InitHepOut ==
    /\ settings \in HepOutSettings
    /\ nsets = 0
    /\ build \in {b \in Builds : ~b.ssl}
    /\ parser = packet_parser_new
    /\ hepin = NoInput
    /\ trace = <<>>
    /\ nrecv = 0
    /\ hepout = capture_output_hep(settings, NullUrl, TRUE, TRUE)
    /\ wire = <<>>
    /\ env = [sock |-> TRUE, peer |-> TRUE]
    /\ msgs = <<>>
    /\ msgq = NoQuery
    /\ helper = NoCall
    /\ store = EmptyStore
    /\ sock = EmptySocket
    /\ conf = NoConf
    /\ proc = Running
    /\ ui = NoPrompt
    /\ calls = NoCalls
    /\ ipdata = NoAssembly
    /\ clw = NoWin
    /\ togg = NoToggle
    /\ hepbuf = NoWrite
    /\ tree = NoTree
    /\ nav = NoNav

\* A write that asks for the IP and SIP data only
HepWritableWithoutUdp(pkt) == pkt.ip.present /\ pkt.sip.present

\* The three g_return_if_fail of capture_output_hep_write let the packet
\* pass
HepWritable(pkt) == pkt.ip.present /\ pkt.udp.present /\ pkt.sip.present

\* capture_output_hep_write(output, packet)
CaptureOutputHepWrite ==
    /\ hepout.state = "ok"
    /\ \E pkt \in Packets(build) : \E netOk \in BOOLEAN :
          IF ~pkt.ip.present \/ ~pkt.udp.present \/ ~pkt.sip.present
          THEN UNCHANGED wire
          ELSE LET d == HepBuffer(build, hepout, pkt)
               IN  IF SocketSendOk(d, netOk)
                   THEN wire' = << [pkt |-> pkt, dgram |-> d] >>
                   ELSE UNCHANGED wire
    /\ UNCHANGED <<settings, nsets, build, parser, hepin, trace, nrecv,
                   hepout, env, msgVars, sock, startVars>>

NextHepOut == CaptureOutputHepWrite

\* capture_output_hep_write(output, packet), called once on a sender that
\* has sent nothing, with the call on record: hepbuf holds the packet handed
\* over, the buffer built for it (NoBuffer when the function returned before
\* building one) and whether g_socket_send took it
CaptureOutputHepWriteCall ==
    /\ hepout.state = "ok"
    /\ ~hepbuf.called
    /\ \E pkt \in Packets(build) : \E netOk \in BOOLEAN :
          IF ~HepWritable(pkt)
          THEN /\ hepbuf' = [called |-> TRUE, pkt |-> pkt,
                           data |-> NoBuffer, sent |-> FALSE]
               /\ UNCHANGED wire
          ELSE LET d == HepBuffer(build, hepout, pkt)
               IN  /\ hepbuf' = [called |-> TRUE, pkt |-> pkt, data |-> d,
                                 sent |-> SocketSendOk(d, netOk)]
                   /\ IF SocketSendOk(d, netOk)
                      THEN wire' = << [pkt |-> pkt, dgram |-> d] >>
                      ELSE UNCHANGED wire
    /\ UNCHANGED <<settings, nsets, build, parser, hepin, trace, nrecv,
                   hepout, env, msgVars, sock, conf, proc, ui, calls, ipdata,
                   nav, tree,
                   togg,
                   clw>>

NextHepCall == CaptureOutputHepWriteCall

SpecHepCall == InitHepOut /\ [][NextHepCall]_vars

SpecHepOut == InitHepOut /\ [][NextHepOut]_vars


(***************************************************************************)
(* HEP decoder, as the specification describes it (section 4.7)            *)
(***************************************************************************)
AddressTexts == {"10.0.0.1", "10.0.0.2", "::1", "fe80::1"}

\* inet_ntop: the text of an address read from the wire
inet_ntop(bytes) ==
    IF \E a \in AddressTexts : inet_pton(a) = bytes
    THEN CHOOSE a \in AddressTexts : inet_pton(a) = bytes
    ELSE ""

\* The positions of the chunks of one type in a datagram
ChunksOfType(d, type) == {i \in DOMAIN d.chunks : d.chunks[i].type = type}

\* The data of the first chunk of one type
ChunkData(d, type) ==
    d.chunks[CHOOSE i \in ChunksOfType(d, type) :
                \A j \in ChunksOfType(d, type) : i <= j].data

Rejected == [ok |-> FALSE]

\* Version 3: the banner and the total length are validated against the
\* received bytes, then the fields are read from the chunks
HepDecode3(d, received) ==
    IF d.id # "HEP3" \/ d.length # received
       \/ \E t \in {1, 2, 7, 8, 9, 10, 12, 15} : ChunksOfType(d, t) = {}
       \/ (ChunksOfType(d, 3) = {} /\ ChunksOfType(d, 5) = {})
       \/ (ChunksOfType(d, 4) = {} /\ ChunksOfType(d, 6) = {})
    THEN Rejected
    ELSE LET v4 == ChunkData(d, 1) = AF_INET
         IN  [ok |-> TRUE,
              ip_version |-> IF v4 THEN 4 ELSE 6,
              protocol |-> ChunkData(d, 2),
              srcip |-> inet_ntop(ChunkData(d, IF v4 THEN 3 ELSE 5)),
              dstip |-> inet_ntop(ChunkData(d, IF v4 THEN 4 ELSE 6)),
              sport |-> ChunkData(d, 7),
              dport |-> ChunkData(d, 8),
              sec |-> ChunkData(d, 9),
              usec |-> ChunkData(d, 10),
              capt_id |-> ChunkData(d, 12),
              payload |-> ChunkData(d, 15)]

\* Version 2: a fixed layout header without banner and without chunks; a
\* datagram that opens with the "HEP3" banner is no version 2 datagram
HepDecode2(d, received) ==
    IF d.id = "HEP3" \/ d.chunks # <<>> THEN Rejected ELSE [ok |-> TRUE]

HepDecode(version, d, received) ==
    IF version = 3 THEN HepDecode3(d, received) ELSE HepDecode2(d, received)

\* The fields of a packet and of the sender that the codec carries
PacketFields(hep, pkt) ==
    [ok |-> TRUE,
     ip_version |-> pkt.ip.version,
     protocol |-> pkt.ip.protocol,
     srcip |-> pkt.ip.srcip,
     dstip |-> pkt.ip.dstip,
     sport |-> pkt.udp.sport,
     dport |-> pkt.udp.dport,
     sec |-> pkt.ts.sec,
     usec |-> pkt.ts.usec,
     capt_id |-> hep.id,
     payload |-> pkt.sip.payload]

(***************************************************************************)
(* Properties of the HEP sender                                            *)
(***************************************************************************)
\* A datagram has been emitted
Emitted == wire # <<>>
SentPacket == wire[1].pkt
SentDatagram == wire[1].dgram

\* The chunk types every datagram carries whatever the IP version
CommonChunkTypes == {1, 2, 7, 8, 9, 10, 11, 12, 15}

\* C4: every emitted datagram holds each required chunk exactly once: IP
\* family, IP protocol, source and destination port, timestamp seconds and
\* microseconds, protocol type, capture id and payload, and one source and
\* one destination address chunk of the packet's IP version (4 or 6).
C4_RequiredChunksExactlyOnce ==
    Emitted =>
        /\ \A t \in CommonChunkTypes :
              Cardinality(ChunksOfType(SentDatagram, t)) = 1
        /\ Cardinality(ChunksOfType(SentDatagram, 3)
                       \cup ChunksOfType(SentDatagram, 5)) = 1
        /\ Cardinality(ChunksOfType(SentDatagram, 4)
                       \cup ChunksOfType(SentDatagram, 6)) = 1
        /\ SentPacket.ip.version = 4 =>
              /\ ChunksOfType(SentDatagram, 3) # {}
              /\ ChunksOfType(SentDatagram, 4) # {}
        /\ SentPacket.ip.version = 6 =>
              /\ ChunksOfType(SentDatagram, 5) # {}
              /\ ChunksOfType(SentDatagram, 6) # {}

\* An IPv6 packet has been emitted
C4_Witness ==
    /\ Emitted
    /\ SentPacket.ip.version = 6
    /\ ChunksOfType(SentDatagram, 6) # {}

\* C5: the total length written in the header of an emitted datagram is
\* the number of bytes sent, header included.
C5_TotalLengthIsBytesSent ==
    Emitted => SentDatagram.length = BufferLen(SentDatagram)

\* A datagram close to the UDP limit, with a password and IPv4 addresses
C5_Witness ==
    /\ Emitted
    /\ hepout.password # "NULL"
    /\ SentPacket.sip.payload >= BigPayloadLen
    /\ SentPacket.ip.version = 4

\* C6: the authorization key chunk (type 14) is in an emitted datagram if
\* and only if the eep.send.pass setting is not empty.
C6_AuthKeyIffPasswordConfigured ==
    Emitted =>
        (ChunksOfType(SentDatagram, 14) # {}
            <=> settings["eep.send.pass"] # "")

\* A datagram emitted with the empty password of the defaults
C6_Witness ==
    /\ Emitted
    /\ settings["eep.send.pass"] = ""
    /\ ChunksOfType(SentDatagram, 14) = {}

\* C7: the wire format follows the configured version: the "HEP3" banner
\* and chunks with version 3, a fixed layout without chunks with version 2.
C7_WireFormatFollowsVersion ==
    Emitted =>
        /\ hepout.version = 3 =>
              SentDatagram.id = "HEP3" /\ SentDatagram.chunks # <<>>
        /\ hepout.version = 2 =>
              SentDatagram.id # "HEP3" /\ SentDatagram.chunks = <<>>

\* C8: decoding an emitted datagram with the configured version yields the
\* fields and the payload of the packet it was encoded from.
C8_CodecRoundTrip ==
    Emitted =>
        HepDecode(hepout.version, SentDatagram, BufferLen(SentDatagram))
            = PacketFields(hepout, SentPacket)


(***************************************************************************)
(* SIP messages of a call (message.c)                                      *)
(***************************************************************************)
MaxMsgs == 3

\* Address: ip and port
Addresses ==
    {[ip |-> "10.0.0.1", port |-> 5060],
     [ip |-> "10.0.0.2", port |-> 5060],
     [ip |-> "10.0.0.1", port |-> 5061]}

\* address_equals: same ip, the port ignored
address_equals(addr1, addr2) == addr1.ip = addr2.ip

\* addressport_equals: same ip and same port
addressport_equals(addr1, addr2) ==
    addr1.ip = addr2.ip /\ addr1.port = addr2.port

\* Method codes of packet_sip_method: a request method, a response code
SIP_METHOD_INVITE == 1
SIP_RESPONSE_OK == 200

\* A message as the helpers read it through its packet: the method or
\* response code, the CSeq number, the source and destination address and
\* the initial flag the SIP dissector stored (packet_sip_initial_transaction)
Messages ==
    {m \in [method : {SIP_METHOD_INVITE, SIP_RESPONSE_OK},
            cseq : {1, 2},
            src : Addresses,
            dst : Addresses,
            initial : BOOLEAN] :
        /\ <<m.src.ip, m.src.port, m.dst.ip, m.dst.port>> \in
              {<<"10.0.0.1", 5060, "10.0.0.2", 5060>>,
               <<"10.0.0.2", 5060, "10.0.0.1", 5060>>,
               <<"10.0.0.1", 5061, "10.0.0.2", 5060>>}
        /\ m.method >= 100 => m.src # [ip |-> "10.0.0.1", port |-> 5060]}

\* msg_is_request
msg_is_request(msg) == msg.method < 100

\* msg_is_initial_transaction(msg) where msg is call->msgs[m]: the loop from
\* index i on, and the return after the loop
RECURSIVE InitialTransactionLoop(_, _, _)
InitialTransactionLoop(list, m, i) ==
    IF i > Len(list) THEN list[m].initial
    ELSE LET msg == list[m]
             call_msg == list[i]
         IN  IF ~msg_is_request(call_msg)
             THEN InitialTransactionLoop(list, m, i + 1)
             ELSE IF i = m THEN list[m].initial
             ELSE IF msg.cseq # call_msg.cseq
             THEN InitialTransactionLoop(list, m, i + 1)
             ELSE IF msg_is_request(msg)
                     /\ ~addressport_equals(msg.src, call_msg.src)
             THEN InitialTransactionLoop(list, m, i + 1)
             ELSE IF ~msg_is_request(msg)
                     /\ ~addressport_equals(msg.src, call_msg.dst)
             THEN InitialTransactionLoop(list, m, i + 1)
             ELSE call_msg.initial

msg_is_initial_transaction(list, m) == InitialTransactionLoop(list, m, 1)

InitMsg ==
    /\ settings = SettingDefaults
    /\ nsets = 0
    /\ build = [ssl |-> FALSE, ipv6 |-> TRUE, little_endian |-> TRUE]
    /\ parser = packet_parser_new
    /\ hepin = NoInput
    /\ trace = <<>>
    /\ nrecv = 0
    /\ hepout = NoOutput
    /\ wire = <<>>
    /\ env = [sock |-> TRUE, peer |-> TRUE]
    /\ msgs = <<>>
    /\ msgq = NoQuery
    /\ helper = NoCall
    /\ store = EmptyStore
    /\ sock = EmptySocket
    /\ conf = NoConf
    /\ proc = Running
    /\ ui = NoPrompt
    /\ calls = NoCalls
    /\ ipdata = NoAssembly
    /\ clw = NoWin
    /\ togg = NoToggle
    /\ hepbuf = NoWrite
    /\ tree = NoTree
    /\ nav = NoNav

\* A message of the call arrives: msg_new, then the call appends it
CallAddMessage ==
    /\ Len(msgs) < MaxMsgs
    /\ \E msg \in Messages : msgs' = Append(msgs, msg)
    /\ msgq' = NoQuery
    /\ UNCHANGED <<settings, nsets, build, parser, hepin, trace, nrecv,
                   outVars, env, sock, startVars, helper, store>>

\* msg_is_initial_transaction is called on a message of the call
MsgIsInitialTransaction ==
    /\ \E m \in DOMAIN msgs :
          msgq' = [asked |-> TRUE, msg |-> m,
                   result |-> msg_is_initial_transaction(msgs, m)]
    /\ UNCHANGED <<settings, nsets, build, parser, hepin, trace, nrecv,
                   outVars, env, sock, startVars, msgs, helper, store>>

NextMsg == CallAddMessage \/ MsgIsInitialTransaction

SpecMsg == InitMsg /\ [][NextMsg]_vars

(***************************************************************************)
(* Properties of the message helpers                                       *)
(***************************************************************************)
SameAddressPort(a, b) == a.ip = b.ip /\ a.port = b.port

\* Request i of the call has the CSeq number of message m and comes from
\* the source of m (m a request) or was sent to the source of m (m a
\* response)
MatchingRequest(i, m) ==
    /\ i # m
    /\ msgs[i].method < 100
    /\ msgs[i].cseq = msgs[m].cseq
    /\ IF msgs[m].method < 100
       THEN SameAddressPort(msgs[i].src, msgs[m].src)
       ELSE SameAddressPort(msgs[i].dst, msgs[m].src)

EarlierMatchingRequests(m) == {i \in 1..(m - 1) : MatchingRequest(i, m)}

\* The requests the scan can stop at: those before m when m is a request,
\* those of the whole list when m is a response
ScannedMatchingRequests(m) ==
    IF msgs[m].method < 100 THEN EarlierMatchingRequests(m)
    ELSE {i \in DOMAIN msgs : MatchingRequest(i, m)}

First(S) == CHOOSE i \in S : \A j \in S : i <= j

\* C10 as stated: the result is true exactly when the call has no earlier
\* request with the same CSeq number from the same source (request) or sent
\* to the message's source (response).
C10_TrueIffNoEarlierMatchingRequest ==
    msgq.asked =>
        (msgq.result <=> EarlierMatchingRequests(msgq.msg) = {})

\* C10 amended: the result is the initial flag of the packet of the first
\* request of the list with the same CSeq number that comes from the
\* message's source (message a request, requests before it only) or was
\* sent to the message's source (message a response), and the initial flag
\* of the message's own packet when there is no such request.
C10_InitialFlagOfFirstMatchingRequest ==
    msgq.asked =>
        LET S == ScannedMatchingRequests(msgq.msg)
        IN  msgq.result = IF S = {} THEN msgs[msgq.msg].initial
                          ELSE msgs[First(S)].initial

\* A response with two earlier requests that match it, the first with the
\* initial flag set and the second without: the result is true although
\* earlier matching requests exist and the response's own flag is not set
C10_Witness ==
    /\ msgq.asked
    /\ msgs[msgq.msg].method >= 100
    /\ Cardinality(EarlierMatchingRequests(msgq.msg)) = 2
    /\ \E i \in EarlierMatchingRequests(msgq.msg) : ~msgs[i].initial
    /\ msgq.result
    /\ ~msgs[msgq.msg].initial


(***************************************************************************)
(* Retransmissions: msg_is_retrans (message.c)                             *)
(***************************************************************************)
\* SIP payloads: a request, the same text in another letter case, and the
\* request with the next CSeq number
SipPayloads == {"INVITE CSeq: 1", "invite cseq: 1", "INVITE CSeq: 2"}

\* The text strcasecmp compares: the payload with its letters folded
FoldCase(payload) ==
    CASE payload = "INVITE CSeq: 1" -> "invite cseq: 1"
      [] payload = "invite cseq: 1" -> "invite cseq: 1"
      [] payload = "INVITE CSeq: 2" -> "invite cseq: 2"

\* strcasecmp(a, b) == 0
strcasecmp_equal(a, b) == FoldCase(a) = FoldCase(b)

\* packet_sip_cseq: the CSeq number the SIP dissector read in the payload
packet_sip_cseq(payload) == IF payload = "INVITE CSeq: 2" THEN 2 ELSE 1

\* The requests of a call as msg_is_retrans reads them
PayloadMessages ==
    {m \in [method : {SIP_METHOD_INVITE},
            cseq : {1, 2},
            src : Addresses,
            dst : Addresses,
            initial : {TRUE},
            payload : SipPayloads] :
        /\ m.cseq = packet_sip_cseq(m.payload)
        /\ <<m.src.ip, m.src.port, m.dst.ip, m.dst.port>> \in
              {<<"10.0.0.1", 5060, "10.0.0.2", 5060>>,
               <<"10.0.0.2", 5060, "10.0.0.1", 5060>>,
               <<"10.0.0.1", 5061, "10.0.0.2", 5060>>}}

\* msg_is_retrans(msg) where msg is call->msgs[m]: the loop from index i
\* down; the result is the index of the message returned, 0 for NULL
RECURSIVE RetransLoop(_, _, _)
RECURSIVE RetransLoopFromMsg(_, _, _)

\* A loop that does not skip the message itself
RetransLoopFromMsg(list, m, i) ==
    IF i < 1 THEN 0
    ELSE IF /\ addressport_equals(list[i].src, list[m].src)
            /\ addressport_equals(list[i].dst, list[m].dst)
            /\ strcasecmp_equal(list[m].payload, list[i].payload)
    THEN i
    ELSE RetransLoopFromMsg(list, m, i - 1)

RetransLoop(list, m, i) ==
    IF i < 1 THEN 0
    ELSE IF i = m THEN RetransLoop(list, m, i - 1)
    ELSE IF /\ addressport_equals(list[i].src, list[m].src)
            /\ addressport_equals(list[i].dst, list[m].dst)
            /\ strcasecmp_equal(list[m].payload, list[i].payload)
    THEN i
    ELSE RetransLoop(list, m, i - 1)

msg_is_retrans(list, m) == RetransLoop(list, m, Len(list))

\* A request of the call arrives: msg_new, then the call appends it
CallAddRequest ==
    /\ Len(msgs) < MaxMsgs
    /\ \E msg \in PayloadMessages : msgs' = Append(msgs, msg)
    /\ helper' = NoCall
    /\ UNCHANGED <<settings, nsets, build, parser, hepin, trace, nrecv,
                   outVars, env, sock, startVars, msgq, store>>

\* msg_is_retrans is called on a message of the call
MsgIsRetrans ==
    /\ \E m \in DOMAIN msgs :
          helper' = [fn |-> "msg_is_retrans", msg |-> m,
                     result |-> msg_is_retrans(msgs, m)]
    /\ UNCHANGED <<settings, nsets, build, parser, hepin, trace, nrecv,
                   outVars, env, sock, startVars, msgs, msgq, store>>

NextRetrans == CallAddRequest \/ MsgIsRetrans

SpecRetrans == InitMsg /\ [][NextRetrans]_vars

\* The messages before m with the source, the destination and the very
\* payload of m
PriorIdentical(m) ==
    {i \in 1..(m - 1) :
        /\ SameAddressPort(msgs[i].src, msgs[m].src)
        /\ SameAddressPort(msgs[i].dst, msgs[m].dst)
        /\ msgs[i].payload = msgs[m].payload}

\* C11: msg_is_retrans returns a message that precedes msg in the call's
\* list and has its source, its destination and an identical payload, and
\* none when there is no such message.
C11_RetransIsPriorIdentical ==
    helper.fn = "msg_is_retrans" =>
        IF PriorIdentical(helper.msg) = {}
        THEN helper.result = 0
        ELSE helper.result \in PriorIdentical(helper.msg)


(***************************************************************************)
(* Packet references held by Messages: msg_new, msg_free (message.c) and   *)
(* the packet of capture_input_hep_receive (capture_hep.c)                 *)
(***************************************************************************)
MaxPackets == 3
MaxMsgsPerPacket == 2

\* packet_new: a packet owned by its creator, with no frame yet
packet_new(st) ==
    [st EXCEPT !.packets =
        Append(@, [refs |-> 1, destroyed |-> FALSE, frames |-> 0])]

\* packet_ref: one more owner
packet_ref(st, p) == [st EXCEPT !.packets[p].refs = @ + 1]

\* packet_unref: one owner less; the packet is destroyed with the last one
packet_unref(st, p) ==
    [st EXCEPT !.packets[p].refs = @ - 1,
               !.packets[p].destroyed = (st.packets[p].refs - 1 = 0)]

\* msg_new without the reference on the packet
msg_new_borrowing(st, p) ==
    [st EXCEPT !.messages =
        Append(@, [packet |-> p, freed |-> FALSE,
                   attributes |-> [a \in {} |-> ""]])]

\* msg_new(packet): the Message refers to the packet, takes a reference on
\* it and starts with an empty attribute table
msg_new(st, p) ==
    LET st1 == packet_ref(st, p)
    IN  [st1 EXCEPT !.messages =
            Append(@, [packet |-> p, freed |-> FALSE,
                       attributes |-> [a \in {} |-> ""]])]

\* msg_free(msg): the reference on the packet is given back, the attribute
\* table and the Message are released
msg_free(st, i) ==
    LET st1 == packet_unref(st, st.messages[i].packet)
    IN  [st1 EXCEPT !.messages[i].freed = TRUE]

\* The dissection of one packet hands it to msg_new n times
RECURSIVE DissectIntoStorage(_, _, _)
DissectIntoStorage(st, p, n) ==
    IF n = 0 THEN st ELSE DissectIntoStorage(msg_new(st, p), p, n - 1)

\* capture_input_hep_receive from packet_new on: the packet gets its one
\* frame, is dissected, and the handler gives its reference back
ReceivePacket(st, n) ==
    LET st1 == packet_new(st)
        p == Len(st1.packets)
        st2 == [st1 EXCEPT !.packets[p].frames = @ + 1]
        st3 == DissectIntoStorage(st2, p, n)
    IN  packet_unref(st3, p)

\* A datagram arrives and its handler runs to its end
CaptureInputHepReceivePacket ==
    /\ Len(store.packets) < MaxPackets
    /\ \E n \in 0..MaxMsgsPerPacket : store' = ReceivePacket(store, n)
    /\ UNCHANGED <<settings, nsets, build, parser, hepin, trace, nrecv,
                   outVars, env, sock, startVars, msgs, msgq, helper>>

\* A Message is freed
MsgFree ==
    /\ \E i \in DOMAIN store.messages :
          /\ ~store.messages[i].freed
          /\ store' = msg_free(store, i)
    /\ UNCHANGED <<settings, nsets, build, parser, hepin, trace, nrecv,
                   outVars, env, sock, startVars, msgs, msgq, helper>>

NextStore == CaptureInputHepReceivePacket \/ MsgFree

SpecStore == InitMsg /\ [][NextStore]_vars

\* The Messages not freed that refer to packet p
Holders(p) ==
    {i \in DOMAIN store.messages :
        ~store.messages[i].freed /\ store.messages[i].packet = p}

\* C12: between handlers the reference count of a packet is the number of
\* Messages that hold it (msg_new added one each, msg_free removed one
\* each), a packet is destroyed exactly when its count is 0, that is at the
\* end of the receive handler when no Message took it and otherwise when
\* its last Message is freed, and no Message holds a destroyed packet.
C12_PacketLivesWhileHeld ==
    \A p \in DOMAIN store.packets :
        /\ store.packets[p].refs = Cardinality(Holders(p))
        /\ store.packets[p].destroyed <=> store.packets[p].refs = 0
        /\ store.packets[p].destroyed => Holders(p) = {}

\* One packet no Message took, destroyed by the handler, one packet
\* destroyed by the free of its last Message, one packet still held
C12_Witness ==
    /\ \E p \in DOMAIN store.packets :
          /\ store.packets[p].destroyed
          /\ \A i \in DOMAIN store.messages : store.messages[i].packet # p
    /\ \E p \in DOMAIN store.packets :
          /\ store.packets[p].destroyed
          /\ Cardinality({i \in DOMAIN store.messages :
                             store.messages[i].packet = p}) = 2
    /\ \E p \in DOMAIN store.packets :
          /\ ~store.packets[p].destroyed
          /\ \E i \in DOMAIN store.messages :
                store.messages[i].packet = p /\ store.messages[i].freed


(***************************************************************************)
(* Attribute cache of a Message (message.c)                                *)
(***************************************************************************)
AttributeNames == {"sipfrom", "method"}
AttributeValues == {"alice", "INVITE"}

\* g_hash_table_lookup(msg->attributes, name): "NULL" when there is no entry
attr_lookup(st, i, name) ==
    IF name \in DOMAIN st.messages[i].attributes
    THEN st.messages[i].attributes[name]
    ELSE "NULL"

\* msg_set_cached_attribute(msg, attr, value)
msg_set_cached_attribute(st, i, name, value) ==
    LET prev_value == attr_lookup(st, i, name)
    IN  IF prev_value # "NULL" /\ prev_value # value
        THEN [st EXCEPT !.messages[i].attributes =
                [a \in (DOMAIN @) \cup {name} |->
                    IF a = name THEN value ELSE @[a]]]
        ELSE st

\* msg_get_cached_attribute(msg, attr)
msg_get_cached_attribute(st, i, name) == attr_lookup(st, i, name)

\* An attribute of a Message is computed and handed to the cache
MsgSetCachedAttribute ==
    /\ \E i \in DOMAIN store.messages :
       \E name \in AttributeNames : \E value \in AttributeValues :
          /\ ~store.messages[i].freed
          /\ store' = msg_set_cached_attribute(store, i, name, value)
          /\ helper' = [fn |-> "msg_set_cached_attribute", msg |-> i,
                        attr |-> name, value |-> value]
    /\ UNCHANGED <<settings, nsets, build, parser, hepin, trace, nrecv,
                   outVars, env, sock, startVars, msgs, msgq>>

NextAttr == CaptureInputHepReceivePacket \/ MsgSetCachedAttribute

SpecAttr == InitMsg /\ [][NextAttr]_vars

\* C13: after msg_set_cached_attribute(msg, attr, value) the cache returns
\* value for attr, the first time the attribute is set included.
C13_CachedAttributeReadsBack ==
    helper.fn = "msg_set_cached_attribute" =>
        msg_get_cached_attribute(store, helper.msg, helper.attr)
            = helper.value


(***************************************************************************)
(* Preferred codec of a Message (message.c)                                *)
(***************************************************************************)
MaxMedias == 2
MaxFormats == 2

CodecAliases == {"PCMU", "PCMA"}

\* The sequences over S of length 0..n
RECURSIVE SeqsUpTo(_, _)
SeqsUpTo(S, n) ==
    IF n = 0 THEN {<<>>}
    ELSE LET shorter == SeqsUpTo(S, n - 1)
         IN  shorter \cup {Append(q, x) : q \in shorter, x \in S}

\* PacketSdpMedia: the formats of one media, in SDP order
SdpMedias ==
    {[formats |-> f] :
        f \in SeqsUpTo({[alias |-> a] : a \in CodecAliases}, MaxFormats)}

\* packet_sdp_data(msg->packet): NULL for a packet without SDP, or the
\* medias in SDP order
NoSdp == [null |-> TRUE, medias |-> <<>>]
SdpDatas ==
    {NoSdp} \cup
    {[null |-> FALSE, medias |-> ms] : ms \in SeqsUpTo(SdpMedias, MaxMedias)}

\* A message as msg_get_preferred_codec_alias reads it
SdpMessages == {[method |-> SIP_METHOD_INVITE, sdp |-> d] : d \in SdpDatas}

\* The alias of the first format of the last media
msg_get_last_media_codec_alias(msg) ==
    IF msg.sdp.null THEN "NULL"
    ELSE IF msg.sdp.medias = <<>> THEN "NULL"
    ELSE LET media == msg.sdp.medias[Len(msg.sdp.medias)]
         IN  IF media.formats = <<>> THEN "NULL"
             ELSE media.formats[1].alias

\* msg_get_preferred_codec_alias(msg): g_list_nth_data(list, 0) is NULL for
\* an empty list, and each g_return_val_if_fail returns NULL
msg_get_preferred_codec_alias(msg) ==
    IF msg.sdp.null THEN "NULL"
    ELSE IF msg.sdp.medias = <<>> THEN "NULL"
    ELSE LET media == msg.sdp.medias[1]
         IN  IF media.formats = <<>> THEN "NULL"
             ELSE media.formats[1].alias

InitCodec ==
    /\ settings = SettingDefaults
    /\ nsets = 0
    /\ build = [ssl |-> FALSE, ipv6 |-> TRUE, little_endian |-> TRUE]
    /\ parser = packet_parser_new
    /\ hepin = NoInput
    /\ trace = <<>>
    /\ nrecv = 0
    /\ hepout = NoOutput
    /\ wire = <<>>
    /\ env = [sock |-> TRUE, peer |-> TRUE]
    /\ msgs \in {<<m>> : m \in SdpMessages}
    /\ msgq = NoQuery
    /\ helper = NoCall
    /\ store = EmptyStore
    /\ sock = EmptySocket
    /\ conf = NoConf
    /\ proc = Running
    /\ ui = NoPrompt
    /\ calls = NoCalls
    /\ ipdata = NoAssembly
    /\ clw = NoWin
    /\ togg = NoToggle
    /\ hepbuf = NoWrite
    /\ tree = NoTree
    /\ nav = NoNav

\* msg_get_preferred_codec_alias is called on the message
MsgGetPreferredCodecAlias ==
    /\ helper' = [fn |-> "msg_get_preferred_codec_alias", msg |-> 1,
                  result |-> msg_get_preferred_codec_alias(msgs[1])]
    /\ UNCHANGED <<settings, nsets, build, parser, hepin, trace, nrecv,
                   outVars, env, sock, startVars, msgs, msgq, store>>

NextCodec == MsgGetPreferredCodecAlias

SpecCodec == InitCodec /\ [][NextCodec]_vars

\* The message has SDP data, a media and a format in its first media
HasPreferredCodec(msg) ==
    /\ ~msg.sdp.null
    /\ Len(msg.sdp.medias) >= 1
    /\ Len(Head(msg.sdp.medias).formats) >= 1

\* C14: msg_get_preferred_codec_alias returns the alias of the first format
\* of the first media, and none when the message has no SDP data, no media
\* or no format in its first media.
C14_PreferredCodecIsFirstFormat ==
    helper.fn = "msg_get_preferred_codec_alias" =>
        IF HasPreferredCodec(msgs[helper.msg])
        THEN helper.result
                = Head(Head(msgs[helper.msg].sdp.medias).formats).alias
        ELSE helper.result = "NULL"

\* Two medias whose first formats differ (the first one is returned), and
\* two formats in the first media
C14_Witness ==
    /\ helper.fn = "msg_get_preferred_codec_alias"
    /\ Len(msgs[1].sdp.medias) = 2
    /\ Len(msgs[1].sdp.medias[1].formats) = 2
    /\ Len(msgs[1].sdp.medias[2].formats) >= 1
    /\ msgs[1].sdp.medias[1].formats[1] # msgs[1].sdp.medias[2].formats[1]
    /\ msgs[1].sdp.medias[1].formats[1] # msgs[1].sdp.medias[1].formats[2]
    /\ helper.result = "PCMA"


(***************************************************************************)
(* Datagrams of the HEP listener in arrival order (capture_hep.c)          *)
(***************************************************************************)
MaxDatagrams == 4

\* The listener of the defaults, and the one of a resource file that
\* enables the HEP dissector
ListenSettings ==
    {SettingDefaults, [SettingDefaults EXCEPT !["capture.packet.hep"] = "on"]}

InitListen ==
    /\ settings \in ListenSettings
    /\ nsets = 0
    /\ build = [ssl |-> FALSE, ipv6 |-> TRUE, little_endian |-> TRUE]
    /\ LET r == capture_input_hep(settings, build, packet_parser_new,
                                  NullUrl, TRUE, TRUE)
       IN  hepin = r.hep /\ parser = r.parser
    /\ trace = <<>>
    /\ nrecv = 0
    /\ hepout = NoOutput
    /\ wire = <<>>
    /\ env = [sock |-> TRUE, peer |-> TRUE]
    /\ msgs = <<>>
    /\ msgq = NoQuery
    /\ helper = NoCall
    /\ store = EmptyStore
    /\ sock = EmptySocket
    /\ conf = NoConf
    /\ proc = Running
    /\ ui = NoPrompt
    /\ calls = NoCalls
    /\ ipdata = NoAssembly
    /\ clw = NoWin
    /\ togg = NoToggle
    /\ hepbuf = NoWrite
    /\ tree = NoTree
    /\ nav = NoNav

\* The number of datagrams that have reached the socket
Arrived == Len(sock.queue) + Len(sock.handled)

\* A datagram reaches the socket and waits behind the earlier ones
DatagramArrives ==
    /\ Arrived < MaxDatagrams
    /\ \E len \in Buffers :
          sock' = [sock EXCEPT !.queue =
                      Append(@, [id |-> Arrived + 1, len |-> len])]
    /\ UNCHANGED <<settings, nsets, build, parser, hepin, trace, nrecv,
                   outVars, env, msgVars, startVars>>

\* The frames of the packet with two copies of the datagram
HepPacketFramesTwice(received) == << received, received >>

\* The frames of the packet made for a datagram: one frame with its bytes
HepPacketFrames(received) == << received >>

\* A callback that reports TRUE whatever the read gave
HepReceiveResultAlwaysTrue(received) == TRUE

\* What capture_input_hep_receive returns to the event loop, which keeps the
\* source for TRUE and removes it for FALSE: FALSE when the read failed
HepReceiveResult(received) == received # -1

\* capture_input_hep_receive runs for the datagram at the head of the
\* socket and returns: the packet is built, dissected from the root and
\* released; a receive error (-1) removes the source and is noted in
\* sock.failed
CaptureInputHepReceiveQueued ==
    /\ hepin.state = "ok"
    /\ hepin.source
    /\ sock.queue # <<>>
    /\ \E failed \in BOOLEAN : \E dec \in DispatchDecisions(parser.nodes) :
          IF failed
          THEN /\ hepin' = [hepin EXCEPT !.source = HepReceiveResult(-1)]
               /\ sock' = [sock EXCEPT !.failed = TRUE]
               /\ UNCHANGED <<parser, trace, nrecv>>
          ELSE LET d == Head(sock.queue)
                   r ==
                      NextDissector(parser.nodes, HepReceiveCursor(parser),
                                    d.len, dec, 0)
               IN  /\ parser' = [parser EXCEPT !.current = r.current]
                   /\ trace' = r.trace
                   /\ nrecv' = nrecv + 1
                   /\ sock' = [sock EXCEPT
                               !.queue = Tail(@),
                               !.handled = Append(@,
                                  [id |-> d.id,
                                   frames |-> HepPacketFrames(d.len),
                                   len |-> d.len])]
                   /\ hepin' = [hepin EXCEPT
                                   !.source = HepReceiveResult(d.len)]
    /\ UNCHANGED <<settings, nsets, build, outVars, env, msgVars, startVars>>

NextListen == DatagramArrives \/ CaptureInputHepReceiveQueued

SpecListen == InitListen /\ [][NextListen]_vars

\* C15: the datagrams handled so far are the first ones that arrived, in
\* arrival order and each handled once, the waiting ones are the later
\* ones, and the packet of each handled datagram has exactly one frame,
\* which holds the bytes of that datagram.
C15_HandledInArrivalOrder ==
    /\ \A k \in DOMAIN sock.handled :
          /\ sock.handled[k].id = k
          /\ Len(sock.handled[k].frames) = 1
          /\ sock.handled[k].frames[1] = sock.handled[k].len
    /\ \A k \in DOMAIN sock.queue :
          sock.queue[k].id = Len(sock.handled) + k
    /\ nrecv = Len(sock.handled)

\* Four datagrams have arrived: two of different lengths have been handled
\* and two wait
C15_Witness ==
    /\ Len(sock.handled) = 2
    /\ Len(sock.queue) = 2
    /\ sock.handled[1].len # sock.handled[2].len


(***************************************************************************)
(* setting_set_value and the getters (setting.c)                           *)
(***************************************************************************)
\* The values handed to setting_set_value: those of a resource file, no
\* value (NULL), and long ones
SetValues(n) == SettingValues(n) \cup {"NULL"} \cup LongValues

\* The settings it is called for here: a boolean, a string and a number
SetNames == {"capture.packet.hep", "eep.send.pass", "eep.send.id"}

\* setting_set_value(id, value) is called with any value
SettingSetAnyValue ==
    /\ proc.exit = -1
    /\ nsets < MaxSettingChanges
    /\ \E n \in SetNames : \E v \in SetValues(n) :
          /\ settings' = setting_set_value(settings, n, v)
          /\ proc' = [exit |-> IF setting_set_value_exits(v) THEN 1 ELSE -1,
                      set |-> TRUE, id |-> n, value |-> v]
    /\ nsets' = nsets + 1
    /\ UNCHANGED <<build, parser, hepin, trace, nrecv, outVars, env,
                   msgVars, sock, conf, ui, calls,
                   ipdata,
                   nav,
                   tree,
                   hepbuf,
                   togg,
                   clw>>

NextSet == SettingSetAnyValue

SpecSet == Init /\ [][NextSet]_vars

\* C17: after setting_set_value(id, value) a non-empty value shorter than
\* SETTING_MAX_LEN reads back through setting_get_value; an empty or absent
\* value reads back as none, and as -1 through setting_get_intvalue; a value
\* of SETTING_MAX_LEN bytes or more is not stored and the process has ended
\* with exit code 1, which happens in no other case.
C17_SetThenGet ==
    proc.set =>
        LET v == proc.value
            long == v \in {"<1024 bytes>", "<1025 bytes>"}
        IN  /\ (v # "NULL" /\ v # "" /\ ~long) =>
                  /\ setting_get_value(settings, proc.id) = v
                  /\ proc.exit = -1
            /\ (v = "NULL" \/ v = "") =>
                  /\ setting_get_value(settings, proc.id) = "NULL"
                  /\ setting_get_intvalue(settings, proc.id) = -1
                  /\ proc.exit = -1
            /\ long =>
                  /\ settings[proc.id] # v
                  /\ proc.exit = 1

\* The longest value that fits has been stored after another call
C17_Witness ==
    /\ proc.set
    /\ nsets = 2
    /\ proc.value = "<1023 bytes>"
    /\ settings[proc.id] = "<1023 bytes>"


(***************************************************************************)
(* settings_init and setting_read_file (setting.c)                         *)
(***************************************************************************)
\* The files settings_init may read: /etc/sngreprc, /usr/local/etc/sngreprc,
\* the file named by SNGREPRC, ~/.sngreprc and the file of the options
ConfPaths == {"etc", "local", "env", "home", "opt"}

\* A line that sscanf splits in three fields
ConfLine(type, option, value) ==
    [type |-> type, option |-> option, value |-> value]

\* What a file may hold: nothing readable (fopen fails), or lines that set
\* one or two settings to a value that names the file, among lines that set
\* nothing
FileContents(f) ==
    {NoFile,
     [missing |-> FALSE, lines |-> << ConfLine("set", "eep.send.address", f) >>],
     [missing |-> FALSE, lines |-> << ConfLine("SET", "eep.send.pass", f) >>],
     [missing |-> FALSE,
      lines |-> << ConfLine("set", "eep.send.address", "first"),
                   ConfLine("set", "no.such.setting", f),
                   ConfLine("alias", "eep.send.pass", f),
                   ConfLine("set", "eep.send.address", f),
                   ConfLine("set", "eep.send.pass", f) >>]}

\* strcasecmp(type, "set") == 0
IsSetLine(line) == line.type \in {"set", "SET"}

\* setting_read_file: the loop over the lines from line i on
\* sscanf(line, "%s %s %[^\t\n]", type, option, value): the number of fields
\* the line has, a field a line does not have being "NULL"
Sscanf(line) ==
    IF line.type = "NULL" THEN 0
    ELSE IF line.option = "NULL" THEN 1
    ELSE IF line.value = "NULL" THEN 2
    ELSE 3

RECURSIVE ReadLinesUntilBad(_, _, _)
\* A loop that gives up at the first line it cannot apply
ReadLinesUntilBad(s, lines, i) ==
    IF i > Len(lines) THEN s
    ELSE LET line == lines[i]
         IN  IF Sscanf(line) = 3 /\ IsSetLine(line)
                /\ line.option \in SettingNames
             THEN ReadLinesUntilBad(
                     setting_set_value(s, line.option, line.value),
                     lines, i + 1)
             ELSE s

RECURSIVE ReadLines(_, _, _)
ReadLines(s, lines, i) ==
    IF i > Len(lines) THEN s
    ELSE LET line == lines[i]
         IN  IF Sscanf(line) = 3 /\ IsSetLine(line)
                /\ line.option \in SettingNames
             THEN ReadLines(setting_set_value(s, line.option, line.value),
                            lines, i + 1)
             ELSE ReadLines(s, lines, i + 1)

\* setting_read_file(fname)
setting_read_file(s, file) ==
    IF file.missing THEN s ELSE ReadLines(s, file.lines, 1)

\* settings_init that reads ~/.sngreprc whether SNGREPRC is set or not
settings_init_home_always(c) ==
    LET s1 == IF c.use_defaults THEN SettingDefaults
              ELSE LET a == setting_read_file(SettingDefaults, c.files["etc"])
                       b == setting_read_file(a, c.files["local"])
                       d == IF c.SNGREPRC
                            THEN setting_read_file(b, c.files["env"])
                            ELSE b
                   IN  IF c.homedir
                       THEN setting_read_file(d, c.files["home"])
                       ELSE d
    IN  IF c.file THEN setting_read_file(s1, c.files["opt"]) ELSE s1

\* settings_init(options): the values afterwards
settings_init(c) ==
    LET s1 == IF c.use_defaults THEN SettingDefaults
              ELSE LET a == setting_read_file(SettingDefaults, c.files["etc"])
                       b == setting_read_file(a, c.files["local"])
                   IN  IF c.SNGREPRC
                       THEN setting_read_file(b, c.files["env"])
                       ELSE IF c.homedir
                       THEN setting_read_file(b, c.files["home"])
                       ELSE b
    IN  IF c.file THEN setting_read_file(s1, c.files["opt"]) ELSE s1

\* Before settings_init: any options, environment and files, and no value
InitConf ==
    /\ settings = [n \in SettingNames |-> ""]
    /\ nsets = 0
    /\ build = [ssl |-> FALSE, ipv6 |-> TRUE, little_endian |-> TRUE]
    /\ parser = packet_parser_new
    /\ hepin = NoInput
    /\ trace = <<>>
    /\ nrecv = 0
    /\ hepout = NoOutput
    /\ wire = <<>>
    /\ env = [sock |-> TRUE, peer |-> TRUE]
    /\ msgs = <<>>
    /\ msgq = NoQuery
    /\ helper = NoCall
    /\ store = EmptyStore
    /\ sock = EmptySocket
    /\ conf \in [inited : {FALSE},
                 use_defaults : BOOLEAN, file : BOOLEAN, SNGREPRC : BOOLEAN,
                 homedir : BOOLEAN,
                 files : {[etc |-> a, local |-> b, env |-> c, home |-> d,
                           opt |-> e] :
                             a \in FileContents("etc"),
                             b \in FileContents("local"),
                             c \in FileContents("env"),
                             d \in FileContents("home"),
                             e \in FileContents("opt")}]
    /\ proc = Running
    /\ ui = NoPrompt
    /\ calls = NoCalls
    /\ ipdata = NoAssembly
    /\ clw = NoWin
    /\ togg = NoToggle
    /\ hepbuf = NoWrite
    /\ tree = NoTree
    /\ nav = NoNav

\* settings_init(options)
SettingsInit ==
    /\ ~conf.inited
    /\ settings' = settings_init(conf)
    /\ conf' = [conf EXCEPT !.inited = TRUE]
    /\ UNCHANGED <<nsets, build, parser, hepin, trace, nrecv, outVars, env,
                   msgVars, sock, proc, ui, calls,
                   ipdata,
                   nav,
                   tree,
                   hepbuf,
                   togg,
                   clw>>

NextConf == SettingsInit

SpecConf == InitConf /\ [][NextConf]_vars

\* The sources in the order the claim gives, for the options and the
\* environment of conf
SourceOrder ==
    (IF conf.use_defaults THEN <<>>
     ELSE <<"etc", "local">>
          \o (IF conf.SNGREPRC THEN <<"env">>
              ELSE IF conf.homedir THEN <<"home">> ELSE <<>>))
    \o (IF conf.file THEN <<"opt">> ELSE <<>>)

\* The positions of the set lines for setting n in a file
SetLinesFor(file, n) ==
    {i \in DOMAIN file.lines :
        file.lines[i].type \in {"set", "SET"} /\ file.lines[i].option = n}

\* The sources of SourceOrder that set n
SourcesSetting(n) ==
    {k \in DOMAIN SourceOrder :
        LET file == conf.files[SourceOrder[k]]
        IN  ~file.missing /\ SetLinesFor(file, n) # {}}

Last(S) == CHOOSE i \in S : \A j \in S : j <= i

\* C16: after settings_init each setting has the value given by the last
\* source that sets it, in the order defaults, /etc/sngreprc,
\* /usr/local/etc/sngreprc, the SNGREPRC file if SNGREPRC is set and
\* otherwise ~/.sngreprc, the requested file; with use_defaults only the
\* requested file is read.
C16_LastSourceWins ==
    conf.inited =>
        \A n \in SettingNames :
            IF SourcesSetting(n) = {}
            THEN settings[n] = SettingDefaults[n]
            ELSE LET file == conf.files[SourceOrder[Last(SourcesSetting(n))]]
                 IN  settings[n]
                        = file.lines[Last(SetLinesFor(file, n))].value

\* SNGREPRC is set and ~/.sngreprc exists and sets a value that the
\* SNGREPRC file does not set: the value of /etc/sngreprc stays, while the
\* requested file gave the other setting
C16_Witness ==
    /\ conf.inited
    /\ ~conf.use_defaults /\ conf.SNGREPRC /\ conf.homedir /\ conf.file
    /\ SetLinesFor(conf.files["home"], "eep.send.address") # {}
    /\ SetLinesFor(conf.files["env"], "eep.send.address") = {}
    /\ ~conf.files["env"].missing
    /\ settings["eep.send.address"] = "etc"
    /\ settings["eep.send.pass"] = "opt"


(***************************************************************************)
(* Prompts of the call list window and the event loop (call_list_win.c)    *)
(***************************************************************************)
InitUi ==
    /\ settings \in ListenSettings
    /\ nsets = 0
    /\ build = [ssl |-> FALSE, ipv6 |-> TRUE, little_endian |-> TRUE]
    /\ LET r == capture_input_hep(settings, build, packet_parser_new,
                                  NullUrl, TRUE, TRUE)
       IN  hepin = r.hep /\ parser = r.parser
    /\ trace = <<>>
    /\ nrecv = 0
    /\ hepout = NoOutput
    /\ wire = <<>>
    /\ env = [sock |-> TRUE, peer |-> TRUE]
    /\ msgs = <<>>
    /\ msgq = NoQuery
    /\ helper = NoCall
    /\ store = EmptyStore
    /\ sock = EmptySocket
    /\ conf = NoConf
    /\ proc = Running
    /\ ui \in [prompt : {"none"}, closed : {FALSE}, exitprompt : BOOLEAN]
    /\ calls = NoCalls
    /\ ipdata = NoAssembly
    /\ clw = NoWin
    /\ togg = NoToggle
    /\ hepbuf = NoWrite
    /\ tree = NoTree
    /\ nav = NoNav

\* The loop is at its boundary: no handler is running, so none waits in a
\* prompt, and the window has not been closed
LoopIdle == ui.prompt = "none" /\ ~ui.closed

\* The loop dispatches the listener's source: its handler runs to its end
LoopDispatchSource ==
    /\ LoopIdle
    /\ CaptureInputHepReceiveQueued
    /\ UNCHANGED ui

\* A datagram reaches the socket, whatever the loop is doing
UiDatagramArrives == DatagramArrives /\ UNCHANGED ui

\* call_list_help up to its wgetch: the help screen is drawn and the
\* handler waits for a key
CallListHelp ==
    /\ LoopIdle
    /\ ui' = [ui EXCEPT !.prompt = "help"]
    /\ UNCHANGED <<settings, nsets, build, parser, hepin, trace, nrecv,
                   outVars, env, msgVars, sock, conf, proc,
                   calls,
                   ipdata,
                   nav,
                   tree,
                   hepbuf,
                   togg,
                   clw>>

\* call_list_handle_key(ACTION_PREV_SCREEN) up to the answer of
\* dialog_confirm, or to its return when quitting does not ask
CallListPrevScreen ==
    /\ LoopIdle
    /\ ui' = IF ui.exitprompt THEN [ui EXCEPT !.prompt = "confirm"]
             ELSE [ui EXCEPT !.closed = TRUE]
    /\ UNCHANGED <<settings, nsets, build, parser, hepin, trace, nrecv,
                   outVars, env, msgVars, sock, conf, proc,
                   calls,
                   ipdata,
                   nav,
                   tree,
                   hepbuf,
                   togg,
                   clw>>

\* The operator presses a key in the pending prompt: any key closes the
\* help screen; the exit dialog is answered Yes (0) or cancelled
PromptKey ==
    /\ ui.prompt # "none"
    /\ \E answer \in {0, 1} :
          ui' = IF ui.prompt = "confirm" /\ answer = 0
                THEN [ui EXCEPT !.prompt = "none", !.closed = TRUE]
                ELSE [ui EXCEPT !.prompt = "none"]
    /\ UNCHANGED <<settings, nsets, build, parser, hepin, trace, nrecv,
                   outVars, env, msgVars, sock, conf, proc,
                   calls,
                   ipdata,
                   nav,
                   tree,
                   hepbuf,
                   togg,
                   clw>>

NextUi ==
    \/ UiDatagramArrives
    \/ LoopDispatchSource
    \/ CallListHelp
    \/ CallListPrevScreen
    \/ PromptKey

\* The loop keeps dispatching a ready source when it can; nothing makes the
\* operator press a key
SpecUi == InitUi /\ [][NextUi]_vars /\ WF_vars(LoopDispatchSource)

\* C18: while a prompt of the call list is pending, frames keep being
\* dispatched: every datagram that has arrived is handled, unless the source
\* was removed after a receive error or the window was closed, and this
\* whether or not the operator ever answers the prompt.
C18_IngestionContinuesDuringPrompt ==
    \A k \in 1..MaxDatagrams :
        (Arrived >= k) ~> (Len(sock.handled) >= k \/ ~hepin.source
                           \/ ui.closed)

-----------------------------------------------------------------------------
\* The storage's calls under the call list window: capacity, call groups and
\* X-Call-ID links.  A call is named by the arrival number of its Call-ID;
\* calls.list holds the stored calls, oldest first; calls.xcalls holds the
\* pair <<a, b>> when b is in a.xcalls.

\* Largest number of distinct Call-IDs ingested
MaxCallIds == 5

\* Largest capture.limit considered
MaxLimit == 3

\* Largest number of linked pairs of calls
MaxLinks == 1

CallIds == 1..MaxCallIds

\* The calls in storage
StoredCalls(cs) == {cs.list[i] : i \in 1..Len(cs.list)}

\* call->xcalls
CallXcalls(cs, call) == {b \in CallIds : <<call, b>> \in cs.xcalls}

call_group_new == {}

call_group_clone(original) == original

call_group_add(group, call) == group \cup {call}

call_group_add_calls(group, added) == group \cup added

call_group_remove(group, call) == group \ {call}

call_group_remove_all(group) == {}

call_group_exists(group, call) == call \in group

call_group_count(group) == Cardinality(group)

\* The groups alive: the call list's selection, and the group of the flow
\* window while it is open
LiveGroups(cs) ==
    {cs.group} \cup (IF cs.flow.open THEN {cs.flow.group} ELSE {})

\* A call is pinned when it is a member of a live group
Pinned(cs, call) == \E group \in LiveGroups(cs) : call_group_exists(group, call)

\* The storage without call: its links go with it
StorageRemoveCall(cs, i) ==
    LET call == cs.list[i]
    IN  [cs EXCEPT
            !.list = [j \in 1..(Len(cs.list) - 1) |->
                         IF j < i THEN cs.list[j] ELSE cs.list[j + 1]],
            !.xcalls = {p \in @ : p[1] # call /\ p[2] # call},
            !.evicted = @ \cup {call}]

\* An eviction that takes the oldest call, pinned or not
storage_calls_rotate_oldest(cs) ==
    IF cs.list = <<>> THEN cs ELSE StorageRemoveCall(cs, 1)

\* Capacity eviction: the oldest call that is not pinned leaves the storage;
\* none leaves when every stored call is pinned
storage_calls_rotate(cs) ==
    LET free == {i \in 1..Len(cs.list) : ~Pinned(cs, cs.list[i])}
    IN  IF free = {} THEN cs
        ELSE StorageRemoveCall(cs, CHOOSE i \in free : \A j \in free : i <= j)

\* A message carrying X-Call-ID xcallid links its call with the stored call
\* of that Call-ID, in both directions (0: the message has no X-Call-ID)
call_add_xcall(cs, call, xcallid) ==
    IF xcallid \in StoredCalls(cs) /\ xcallid # call
    THEN [cs EXCEPT !.xcalls = @ \cup {<<call, xcallid>>, <<xcallid, call>>}]
    ELSE cs

\* The storage takes a message of call: a Call-ID new to the storage creates
\* a call, after an eviction when the storage is at its limit
storage_check_packet(cs, call, xcallid) ==
    IF call \in StoredCalls(cs) THEN call_add_xcall(cs, call, xcallid)
    ELSE LET room == IF Len(cs.list) >= cs.limit
                     THEN storage_calls_rotate(cs) ELSE cs
             added == [room EXCEPT !.list = Append(@, call),
                                   !.ingested = call]
         IN  call_add_xcall(added, call, xcallid)

\* The call list is shown over a storage whose capture.limit was set
InitCalls ==
    /\ settings = SettingDefaults
    /\ nsets = 0
    /\ build = [ssl |-> FALSE, ipv6 |-> TRUE, little_endian |-> TRUE]
    /\ parser = packet_parser_new
    /\ hepin = NoInput
    /\ trace = <<>>
    /\ nrecv = 0
    /\ hepout = NoOutput
    /\ wire = <<>>
    /\ env = [sock |-> TRUE, peer |-> TRUE]
    /\ msgs = <<>>
    /\ msgq = NoQuery
    /\ helper = NoCall
    /\ store = EmptyStore
    /\ sock = EmptySocket
    /\ conf = NoConf
    /\ proc = Running
    /\ ui = NoPrompt
    /\ \E limit \in 1..MaxLimit : calls = [NoCalls EXCEPT !.limit = limit]
    /\ ipdata = NoAssembly
    /\ clw = NoWin
    /\ togg = NoToggle
    /\ hepbuf = NoWrite
    /\ tree = NoTree
    /\ nav = NoNav

\* A SIP message reaches the storage: of a stored call, or of the next new
\* Call-ID, with one of the given X-Call-ID
StorageTakes(xcallids) ==
    /\ \E call \in StoredCalls(calls) \cup
                   (IF calls.ingested < MaxCallIds
                    THEN {calls.ingested + 1} ELSE {}),
          xcallid \in xcallids :
          /\ storage_check_packet(calls, call, xcallid) # calls
          /\ Cardinality(storage_check_packet(calls, call, xcallid).xcalls)
                 <= 2 * MaxLinks
          /\ calls' = storage_check_packet(calls, call, xcallid)
    /\ UNCHANGED <<settings, nsets, build, parser, hepin, trace, nrecv,
                   outVars, env, msgVars, sock, conf, proc, ui,
                   ipdata,
                   nav,
                   tree,
                   hepbuf,
                   togg,
                   clw>>

\* ACTION_SELECT on the call under the cursor
CallListSelect ==
    /\ ~calls.flow.open
    /\ calls.list # <<>>
    /\ \E call \in StoredCalls(calls) :
          calls' = [calls EXCEPT !.group =
                       IF call_group_exists(calls.group, call)
                       THEN call_group_remove(calls.group, call)
                       ELSE call_group_add(calls.group, call)]
    /\ UNCHANGED <<settings, nsets, build, parser, hepin, trace, nrecv,
                   outVars, env, msgVars, sock, conf, proc, ui,
                   ipdata,
                   nav,
                   tree,
                   hepbuf,
                   togg,
                   clw>>

\* The group given to the flow window opened from call
CallListFlowGroup(cs, call, extended) ==
    LET cloned == call_group_clone(cs.group)
        group == IF call_group_count(cloned) = 0
                 THEN call_group_add(cloned, call) ELSE cloned
    IN  IF extended THEN call_group_add_calls(group, CallXcalls(cs, call))
        ELSE group

\* ACTION_SHOW_FLOW and ACTION_SHOW_FLOW_EX on the call under the cursor
CallListShowFlow ==
    /\ ~calls.flow.open
    /\ calls.list # <<>>
    /\ \E call \in StoredCalls(calls), extended \in BOOLEAN :
          calls' = [calls EXCEPT !.flow =
                       [open |-> TRUE,
                        callid |-> IF extended THEN call ELSE 0,
                        linked |-> IF extended THEN CallXcalls(calls, call)
                                   ELSE {},
                        group |-> CallListFlowGroup(calls, call, extended)]]
    /\ UNCHANGED <<settings, nsets, build, parser, hepin, trace, nrecv,
                   outVars, env, msgVars, sock, conf, proc, ui,
                   ipdata,
                   nav,
                   tree,
                   hepbuf,
                   togg,
                   clw>>

\* The flow window is dismissed and its group freed
CallFlowClose ==
    /\ calls.flow.open
    /\ calls' = [calls EXCEPT !.flow = NoFlow]
    /\ UNCHANGED <<settings, nsets, build, parser, hepin, trace, nrecv,
                   outVars, env, msgVars, sock, conf, proc, ui,
                   ipdata,
                   nav,
                   tree,
                   hepbuf,
                   togg,
                   clw>>

\* ACTION_CLEAR: the selection is emptied
CallListClear ==
    /\ ~calls.flow.open
    /\ calls.group # {}
    /\ calls' = [calls EXCEPT !.group = call_group_remove_all(@)]
    /\ UNCHANGED <<settings, nsets, build, parser, hepin, trace, nrecv,
                   outVars, env, msgVars, sock, conf, proc, ui,
                   ipdata,
                   nav,
                   tree,
                   hepbuf,
                   togg,
                   clw>>

\* A message without X-Call-ID reaches the storage
StorageCheckPacket == StorageTakes({0})

\* A message reaches the storage, with an X-Call-ID or without one
StorageCheckPacketXcall == StorageTakes(0..MaxCallIds)

NextCalls ==
    \/ StorageCheckPacket
    \/ CallListSelect
    \/ CallListShowFlow
    \/ CallFlowClose
    \/ CallListClear

SpecCalls == InitCalls /\ [][NextCalls]_vars

\* C19: capacity eviction never removes a call that is a member of a live
\* group: when a new Call-ID is ingested, every stored call that is in a live
\* group is still stored afterwards, and a call that leaves the storage is
\* the oldest stored call that is in no live group.
C19_EvictionSparesPinnedCalls ==
    [][calls'.ingested # calls.ingested =>
          /\ \A call \in StoredCalls(calls) :
                Pinned(calls, call) => call \in StoredCalls(calls')
          /\ \A i \in 1..Len(calls.list) :
                calls.list[i] \notin StoredCalls(calls') =>
                    /\ ~Pinned(calls, calls.list[i])
                    /\ \A j \in 1..(i - 1) : Pinned(calls, calls.list[j])
                    /\ \A j \in (i + 1)..Len(calls.list) :
                          calls.list[j] \in StoredCalls(calls')]_vars

\* With limit 3 and the second call selected, five Call-IDs were ingested:
\* calls 1 and 3 were evicted, and calls 2, 4 and 5 remain.
C19_Witness ==
    /\ calls.limit = 3
    /\ calls.evicted = {1, 3}
    /\ calls.list = <<2, 4, 5>>
    /\ Pinned(calls, 2)

NextXcalls ==
    \/ StorageCheckPacketXcall
    \/ CallListSelect
    \/ CallListShowFlow
    \/ CallFlowClose
    \/ CallListClear

SpecXcalls == InitCalls /\ [][NextXcalls]_vars

\* C20: X-Call-ID links are symmetric among the stored calls, and the group
\* of an extended flow opened from a call that has links holds that call
\* together with the calls linked to it.
C20_LinkedCallsShareExtendedFlow ==
    /\ \A a \in StoredCalls(calls), b \in StoredCalls(calls) :
          b \in CallXcalls(calls, a) <=> a \in CallXcalls(calls, b)
    /\ (calls.flow.open /\ calls.flow.linked # {}) =>
          ({calls.flow.callid} \cup calls.flow.linked) \subseteq
              calls.flow.group

-----------------------------------------------------------------------------
\* IP fragment reassembly (packet_ip.h).  Offsets and lengths are counted in
\* the 8-byte units of the IP fragment offset.  A datagram of the assembly
\* list is [id, len, seen, fragments]: len is 0 until the fragment without the
\* more-fragments flag has arrived; a fragment is [id, frag_off, len, more].

\* Length of the longest datagram sent
MaxDatagramLen == 4

\* The datagrams sent, by identifier, and their lengths
IpIds == {1, 2}

IpTotal(id) == IF id = 1 THEN MaxDatagramLen ELSE MaxDatagramLen - 1

\* The fragments a sender may cut datagram id into, under any fragment
\* size: every range of the datagram, the last one without the
\* more-fragments flag.  The range that covers the datagram is the packet
\* that was not fragmented.
IpFragments ==
    {[id |-> id, frag_off |-> off, len |-> len,
      more |-> off + len < IpTotal(id)] :
        id \in IpIds, off \in 0..(MaxDatagramLen - 1), len \in 1..MaxDatagramLen}
    \cap {f \in [id : IpIds, frag_off : 0..MaxDatagramLen,
                 len : 1..MaxDatagramLen, more : BOOLEAN] :
             f.frag_off + f.len <= IpTotal(f.id)}

RECURSIVE SumLen(_)
SumLen(frags) ==
    IF frags = {} THEN 0
    ELSE LET f == CHOOSE g \in frags : TRUE
         IN  f.len + SumLen(frags \ {f})

\* What is left of the stored fragment g once fragment f has arrived: the
\* bytes of f replace those of g where the two overlap
FragmentTrim(g, f) ==
    LET gend == g.frag_off + g.len
        fend == f.frag_off + f.len
        left == IF g.frag_off < f.frag_off
                THEN {[frag_off |-> g.frag_off,
                       len |-> (IF gend < f.frag_off THEN gend
                                ELSE f.frag_off) - g.frag_off]}
                ELSE {}
        right == IF gend > fend
                 THEN {[frag_off |-> IF g.frag_off > fend THEN g.frag_off
                                     ELSE fend,
                        len |-> gend - (IF g.frag_off > fend THEN g.frag_off
                                        ELSE fend)]}
                 ELSE {}
    IN  left \cup right

\* A table that adds every fragment's length to seen and keeps the stored
\* fragments as they arrived
FragmentInsertCounting(d, f) ==
    [d EXCEPT !.fragments = @ \cup {[frag_off |-> f.frag_off, len |-> f.len]},
              !.seen = @ + f.len,
              !.len = IF f.more THEN @ ELSE f.frag_off + f.len]

\* The fragment is inserted in offset order, overlaps are resolved, seen is
\* updated, and the fragment without the more-fragments flag declares the
\* datagram's length
FragmentInsert(d, f) ==
    LET frags == UNION {FragmentTrim(g, f) : g \in d.fragments}
                 \cup {[frag_off |-> f.frag_off, len |-> f.len]}
    IN  [d EXCEPT !.fragments = frags,
                  !.seen = SumLen(frags),
                  !.len = IF f.more THEN @ ELSE f.frag_off + f.len]

NewDatagram(id) == [id |-> id, len |-> 0, seen |-> 0, fragments |-> {}]

\* The IP dissector on one received packet: a packet that is not a fragment
\* passes through; a fragment goes into its datagram of the table, and the
\* children are handed the datagram only when it is complete, after the
\* table has dropped it
packet_ip_dissect(state, f) ==
    IF f.frag_off = 0 /\ ~f.more
    THEN [state EXCEPT !.upstream =
             [called |-> TRUE, id |-> f.id, len |-> f.len, seen |-> f.len,
              more |-> FALSE,
              fragments |-> {[frag_off |-> 0, len |-> f.len]}]]
    ELSE LET known == {d \in state.assembly : d.id = f.id}
             old == IF known = {} THEN NewDatagram(f.id)
                    ELSE CHOOSE d \in known : TRUE
             new == FragmentInsert(old, f)
         IN  IF new.len # 0 /\ new.seen = new.len
             THEN [assembly |-> state.assembly \ known,
                   upstream |-> [called |-> TRUE, id |-> new.id,
                                 len |-> new.len, seen |-> new.seen,
                                 more |-> FALSE,
                                 fragments |-> new.fragments]]
             ELSE [assembly |-> (state.assembly \ known) \cup {new},
                   upstream |-> NoUpstream]

\* Packets reach the IP dissector of a parser built from the link layer
InitIp ==
    /\ settings = SettingDefaults
    /\ nsets = 0
    /\ build = [ssl |-> FALSE, ipv6 |-> TRUE, little_endian |-> TRUE]
    /\ parser = DissectorInit(settings, build, packet_parser_new, RootNode,
                              "LINK")
    /\ hepin = [NoInput EXCEPT !.state = "other"]
    /\ trace = <<>>
    /\ nrecv = 0
    /\ hepout = NoOutput
    /\ wire = <<>>
    /\ env = [sock |-> TRUE, peer |-> TRUE]
    /\ msgs = <<>>
    /\ msgq = NoQuery
    /\ helper = NoCall
    /\ store = EmptyStore
    /\ sock = EmptySocket
    /\ conf = NoConf
    /\ proc = Running
    /\ ui = NoPrompt
    /\ calls = NoCalls
    /\ ipdata = NoAssembly
    /\ clw = NoWin
    /\ togg = NoToggle
    /\ hepbuf = NoWrite
    /\ tree = NoTree
    /\ nav = NoNav

\* A packet of one of the datagrams arrives, in any order and any number of
\* times
PacketIpDissect ==
    /\ \E f \in IpFragments : ipdata' = packet_ip_dissect(ipdata, f)
    /\ UNCHANGED <<settings, nsets, build, parser, hepin, trace, nrecv,
                   outVars, env, msgVars, sock, conf, proc, ui, calls,
                   nav,
                   tree,
                   hepbuf,
                   togg,
                   clw>>

NextIp == PacketIpDissect

SpecIp == InitIp /\ [][NextIp]_vars

\* The fragments cover the bytes 0..len-1 without gap or overlap
OffsetContiguous(frags, len) ==
    /\ \A u \in 0..(len - 1) :
          Cardinality({g \in frags :
                          g.frag_off <= u /\ u < g.frag_off + g.len}) = 1
    /\ \A g \in frags : g.len > 0 /\ g.frag_off + g.len <= len

\* C21: a datagram in flight has seen no more than its declared length; the
\* children of the IP dissector are handed a datagram only when the fragment
\* without the more-fragments flag has arrived and seen equals the declared
\* length, and its fragments are then offset-contiguous and their lengths
\* sum to the length.
C21_ReassembledDatagramIsWhole ==
    /\ \A d \in ipdata.assembly :
          /\ d.len # 0 => d.seen < d.len
          /\ d.seen = SumLen(d.fragments)
    /\ ipdata.upstream.called =>
          /\ ~ipdata.upstream.more
          /\ ipdata.upstream.len = IpTotal(ipdata.upstream.id)
          /\ ipdata.upstream.seen = ipdata.upstream.len
          /\ SumLen(ipdata.upstream.fragments) = ipdata.upstream.len
          /\ OffsetContiguous(ipdata.upstream.fragments, ipdata.upstream.len)

\* A datagram was handed over from three fragments while the other datagram
\* waits for its first bytes, its last fragment having arrived
C21_Witness ==
    /\ ipdata.upstream.called
    /\ Cardinality(ipdata.upstream.fragments) >= 3
    /\ \E d \in ipdata.assembly : d.len # 0 /\ d.seen < d.len

-----------------------------------------------------------------------------
\* Message navigation in a call group (group.h).  nav.msgs holds the stored
\* messages in arrival order, each [call, ts, sdp]; a message is named by
\* its place in it and 0 is NULL.  nav.group holds the member calls.

\* Largest number of messages stored
MaxNavMsgs == 3

\* Latest timestamp of a message
MaxTs == 2

NavCalls == {1, 2}

\* The messages stored: they arrive in the order of their timestamps
NavStorages ==
    {ms \in UNION {[1..n -> [call : NavCalls, ts : 1..MaxTs, sdp : BOOLEAN]] :
                      n \in 1..MaxNavMsgs} :
        \A i \in 1..(Len(ms) - 1) : ms[i].ts <= ms[i + 1].ts}

\* msg_has_sdp
NavHasSdp(st, msg) == st.msgs[msg].sdp

\* The messages of the member calls
GroupMembers(st) == {i \in 1..Len(st.msgs) : st.msgs[i].call \in st.group}

\* The order of a group's message list that puts one call after the other
NavBeforeByCall(st, a, b) ==
    \/ st.msgs[a].call < st.msgs[b].call
    \/ st.msgs[a].call = st.msgs[b].call /\ a < b

\* The order of a group's message list: by timestamp, and by arrival among
\* messages of the same timestamp
NavBefore(st, a, b) ==
    \/ st.msgs[a].ts < st.msgs[b].ts
    \/ st.msgs[a].ts = st.msgs[b].ts /\ a < b

\* The messages navigation stops at: with sdp_only, those that have SDP
NavConsidered(st) ==
    {i \in GroupMembers(st) : ~st.sdp_only \/ NavHasSdp(st, i)}

call_group_get_next_msg(st, msg) ==
    LET later == {i \in NavConsidered(st) : msg = 0 \/ NavBefore(st, msg, i)}
    IN  IF later = {} THEN 0
        ELSE CHOOSE i \in later : \A j \in later \ {i} : NavBefore(st, i, j)

call_group_get_prev_msg(st, msg) ==
    LET earlier == {i \in NavConsidered(st) : NavBefore(st, i, msg)}
    IN  IF earlier = {} THEN 0
        ELSE CHOOSE i \in earlier : \A j \in earlier \ {i} : NavBefore(st, j, i)

\* A group of stored calls is about to be traversed
InitNav ==
    /\ settings = SettingDefaults
    /\ nsets = 0
    /\ build = [ssl |-> FALSE, ipv6 |-> TRUE, little_endian |-> TRUE]
    /\ parser = packet_parser_new
    /\ hepin = NoInput
    /\ trace = <<>>
    /\ nrecv = 0
    /\ hepout = NoOutput
    /\ wire = <<>>
    /\ env = [sock |-> TRUE, peer |-> TRUE]
    /\ msgs = <<>>
    /\ msgq = NoQuery
    /\ helper = NoCall
    /\ store = EmptyStore
    /\ sock = EmptySocket
    /\ conf = NoConf
    /\ proc = Running
    /\ ui = NoPrompt
    /\ calls = NoCalls
    /\ ipdata = NoAssembly
    /\ clw = NoWin
    /\ togg = NoToggle
    /\ hepbuf = NoWrite
    /\ tree = NoTree
    /\ \E ms \in NavStorages, group \in SUBSET NavCalls, only \in BOOLEAN :
          nav = [NoNav EXCEPT !.msgs = ms, !.group = group,
                              !.sdp_only = only]

\* One step of the traversal: call_group_get_next_msg from the message the
\* last step returned (NULL at first), then call_group_get_prev_msg from
\* the message found
CallGroupGetNextMsg ==
    /\ ~nav.done
    /\ LET next == call_group_get_next_msg(nav, nav.cur)
       IN  nav' = IF next = 0 THEN [nav EXCEPT !.done = TRUE]
                  ELSE [nav EXCEPT
                           !.cur = next,
                           !.visited = Append(@, next),
                           !.back = Append(@,
                                       call_group_get_prev_msg(nav, next))]
    /\ UNCHANGED <<settings, nsets, build, parser, hepin, trace, nrecv,
                   outVars, env, msgVars, sock, conf, proc, ui, calls,
                   ipdata,
                   tree,
                   hepbuf,
                   togg,
                   clw>>

\* call_group_get_next_msg from any message of a member call, then
\* call_group_get_prev_msg from the message found
CallGroupGetPrevMsg ==
    /\ \E msg \in GroupMembers(nav) :
          LET next == call_group_get_next_msg(nav, msg)
          IN  /\ next # 0
              /\ nav' = [nav EXCEPT !.probe =
                            [asked |-> TRUE, msg |-> msg, next |-> next,
                             prev |-> call_group_get_prev_msg(nav, next)]]
    /\ UNCHANGED <<settings, nsets, build, parser, hepin, trace, nrecv,
                   outVars, env, msgVars, sock, conf, proc, ui, calls,
                   ipdata,
                   tree,
                   hepbuf,
                   togg,
                   clw>>

NextNav ==
    \/ CallGroupGetNextMsg
    \/ CallGroupGetPrevMsg

SpecNav == InitNav /\ [][NextNav]_vars

\* Every message visited is a member's, none is visited twice, and they are
\* visited in non-decreasing timestamp order
NavChronological ==
    /\ \A k \in 1..Len(nav.visited) : nav.visited[k] \in GroupMembers(nav)
    /\ \A k, l \in 1..Len(nav.visited) :
          k < l => /\ nav.visited[k] # nav.visited[l]
                   /\ nav.msgs[nav.visited[k]].ts <= nav.msgs[nav.visited[l]].ts

-----------------------------------------------------------------------------
\* C23: msg_is_initial_transaction depends only on the messages that precede
\* the message in the call's list: when a further message is appended to the
\* call, the result for every message already in the list stays what it
\* was, for requests and for responses.
C23_LaterMessagesDoNotChangeResult ==
    [][(Len(msgs') = Len(msgs) + 1 /\ SubSeq(msgs', 1, Len(msgs)) = msgs) =>
          \A m \in DOMAIN msgs :
              msg_is_initial_transaction(msgs', m)
                  = msg_is_initial_transaction(msgs, m)]_vars

-----------------------------------------------------------------------------
\* The other messages of the call that match message m: same source and
\* destination address and port, and the same payload as strcasecmp
\* compares payloads, the letter case set aside
OtherMatching(m) ==
    {i \in DOMAIN msgs \ {m} :
        /\ SameAddressPort(msgs[i].src, msgs[m].src)
        /\ SameAddressPort(msgs[i].dst, msgs[m].dst)
        /\ FoldCase(msgs[i].payload) = FoldCase(msgs[m].payload)}

-----------------------------------------------------------------------------
\* msg_media_for_addr (message.c)

\* Largest number of medias in the SDP of a message
MaxEndpoints == 3

\* packet_sdp_data(msg->packet) as msg_media_for_addr reads it: NULL, or
\* the address of each media, in SDP order
EndpointSdpDatas ==
    {NoSdp} \cup
    {[null |-> FALSE, medias |-> ms] :
        ms \in SeqsUpTo({[address |-> a] : a \in Addresses}, MaxEndpoints)}

EndpointMessages ==
    {[method |-> SIP_METHOD_INVITE, sdp |-> d] : d \in EndpointSdpDatas}

\* The loop over sdp->medias from the i-th media on: the place of the media
\* returned, 0 for NULL
RECURSIVE MediaForAddrLoopAnyPort(_, _, _)
MediaForAddrLoopAnyPort(medias, dst, i) ==
    IF i > Len(medias) THEN 0
    ELSE IF address_equals(medias[i].address, dst) THEN i
    ELSE MediaForAddrLoopAnyPort(medias, dst, i + 1)

RECURSIVE MediaForAddrLoop(_, _, _)
MediaForAddrLoop(medias, dst, i) ==
    IF i > Len(medias) THEN 0
    ELSE IF addressport_equals(medias[i].address, dst) THEN i
    ELSE MediaForAddrLoop(medias, dst, i + 1)

\* msg_media_for_addr(msg, dst): g_return_val_if_fail returns NULL for a
\* packet without SDP data
msg_media_for_addr(msg, dst) ==
    IF msg.sdp.null THEN 0
    ELSE MediaForAddrLoop(msg.sdp.medias, dst, 1)

InitMedia ==
    /\ settings = SettingDefaults
    /\ nsets = 0
    /\ build = [ssl |-> FALSE, ipv6 |-> TRUE, little_endian |-> TRUE]
    /\ parser = packet_parser_new
    /\ hepin = NoInput
    /\ trace = <<>>
    /\ nrecv = 0
    /\ hepout = NoOutput
    /\ wire = <<>>
    /\ env = [sock |-> TRUE, peer |-> TRUE]
    /\ msgs \in {<<m>> : m \in EndpointMessages}
    /\ msgq = NoQuery
    /\ helper = NoCall
    /\ store = EmptyStore
    /\ sock = EmptySocket
    /\ conf = NoConf
    /\ proc = Running
    /\ ui = NoPrompt
    /\ calls = NoCalls
    /\ ipdata = NoAssembly
    /\ clw = NoWin
    /\ togg = NoToggle
    /\ hepbuf = NoWrite
    /\ tree = NoTree
    /\ nav = NoNav

\* msg_media_for_addr is called on the message with an address
MsgMediaForAddr ==
    /\ \E dst \in Addresses :
          helper' = [fn |-> "msg_media_for_addr", msg |-> 1, dst |-> dst,
                     result |-> msg_media_for_addr(msgs[1], dst)]
    /\ UNCHANGED <<settings, nsets, build, parser, hepin, trace, nrecv,
                   outVars, env, sock, startVars, msgs, msgq, store>>

NextMedia == MsgMediaForAddr

SpecMedia == InitMedia /\ [][NextMedia]_vars

\* The places of the medias of the message whose IP and port are those of
\* dst
EndpointsAt(msg, dst) ==
    {i \in 1..Len(msg.sdp.medias) :
        /\ msg.sdp.medias[i].address.ip = dst.ip
        /\ msg.sdp.medias[i].address.port = dst.port}

\* C25: msg_media_for_addr returns the first media of the message, in SDP
\* order, whose IP and port both equal dst, and none when the message has
\* no SDP data or no media has that IP and port; a media with the IP of dst
\* and another port is never returned.
C25_FirstMediaAtAddressAndPort ==
    helper.fn = "msg_media_for_addr" =>
        LET at == EndpointsAt(msgs[1], helper.dst)
        IN  /\ (msgs[1].sdp.null \/ at = {}) => helper.result = 0
            /\ at # {} =>
                  /\ helper.result \in at
                  /\ \A i \in at : helper.result <= i

\* The second of three medias was returned: the first has the IP of dst
\* with another port, the third is at dst too
C25_Witness ==
    /\ helper.fn = "msg_media_for_addr"
    /\ ~msgs[1].sdp.null
    /\ Len(msgs[1].sdp.medias) = 3
    /\ msgs[1].sdp.medias[1].address.ip = helper.dst.ip
    /\ msgs[1].sdp.medias[1].address.port # helper.dst.port
    /\ EndpointsAt(msgs[1], helper.dst) = {2, 3}
    /\ helper.result = 2

-----------------------------------------------------------------------------
\* One call of packet_parser_next_dissector on the tree built, from any node
\* and with any buffer.  The trace of the call starts with an "entry" event, which holds
\* the cursor and the buffer at entry, and ends with a "leave" event, which
\* holds the cursor and the buffer returned.

PacketParserNextDissector ==
    /\ hepin.state = "other"
    /\ trace = <<>>
    /\ \E cur \in 1..Len(parser.nodes), data \in Buffers \cup {NoData},
          dec \in DecisionSeqs(MaxDecisions) :
          LET r == NextDissector(parser.nodes, cur, data, dec, 0)
          IN  /\ parser' = [parser EXCEPT !.current = r.current]
              /\ trace' = << [ev |-> "entry", node |-> cur, parent |-> cur,
                              buf |-> data] >>
                          \o r.trace
                          \o << [ev |-> "leave", node |-> r.current,
                                 parent |-> cur, buf |-> r.data] >>
    /\ UNCHANGED <<settings, nsets, build, hepin, nrecv, outVars, env,
                   msgVars, sock, startVars>>

NextNextDissector == PacketParserNextDissector

SpecNextDissector == InitDispatch /\ [][NextNextDissector]_vars

\* The buffer child node was called with in the trace
Passed(tr, node) ==
    LET i == CHOOSE k \in 1..Len(tr) : tr[k].ev = "call" /\ tr[k].node = node
    IN  tr[i].buf

\* The buffer the dispatch at node p started with
EnteredWith(tr, p) ==
    LET i == CHOOSE k \in 1..Len(tr) : tr[k].ev = "enter" /\ tr[k].node = p
    IN  tr[i].buf

\* C26: in a call of packet_parser_next_dissector the first child invoked
\* receives the buffer passed at entry and each later one the buffer the
\* child invoked before it returned; the call returns the result of the last
\* child invoked; and with no buffer at entry no dissector is invoked, the
\* cursor stays where it was and none is returned.
C26_ChildrenChainBuffers ==
    trace # <<>> =>
        LET entry == trace[1]
            leave == trace[Len(trace)]
        IN  IF entry.buf = NoData
            THEN /\ Len(trace) = 2
                 /\ leave.buf = NoData
                 /\ leave.node = entry.node
                 /\ parser.current = entry.node
            ELSE \A p \in Entered(trace) :
                    LET inv == EventNodes(trace, p, {"call"})
                        start == EnteredWith(trace, p)
                    IN  /\ \A j \in 1..Len(inv) :
                              Passed(trace, inv[j]) =
                                  IF j = 1 THEN start
                                  ELSE Returned(trace, inv[j - 1])
                        /\ p = entry.node =>
                              leave.buf = IF inv = <<>> THEN start
                                          ELSE Returned(trace, inv[Len(inv)])

\* The second child invoked received a shorter buffer than the one passed
\* at entry, and the call returned what the second child returned
C26_Witness ==
    /\ trace # <<>>
    /\ trace[1].buf # NoData
    /\ LET inv == EventNodes(trace, trace[1].node, {"call"})
       IN  /\ Len(inv) >= 2
           /\ Passed(trace, inv[2]) # trace[1].buf
           /\ Passed(trace, inv[2]) = Returned(trace, inv[1])
           /\ trace[Len(trace)].buf = Returned(trace, inv[Len(inv)])

\* C27: packet_parser_next_dissector iterates the children of the node the
\* cursor was on at entry: the children a call visits are the first
\* children of that node, in their order, also after a child's dissect made
\* a nested dispatch that left the cursor on a deeper node.
C27_OuterCallKeepsItsSiblings ==
    \A p \in Entered(trace) :
        LET kids == Children(parser.nodes, p)
            seen == EventNodes(trace, p, {"call", "skip"})
        IN  /\ Len(seen) <= Len(kids)
            /\ \A j \in 1..Len(seen) :
                  /\ seen[j] = kids[j]
                  /\ parser.nodes[seen[j]].parent = p

\* The first child of a node made a nested dispatch that went through a
\* child of its own, and the outer call then visited the node's second child
C27_Witness ==
    \E p \in Entered(trace) :
        LET kids == Children(parser.nodes, p)
            seen == EventNodes(trace, p, {"call", "skip"})
        IN  /\ Len(seen) >= 2
            /\ seen[1] \in Entered(trace)
            /\ EventNodes(trace, seen[1], {"call", "skip"}) # <<>>
            /\ seen[2] = kids[2]

\* C28: the dispatch of every datagram the HEP listener receives starts with
\* the cursor on the root of the tree, wherever the dispatch of the datagram
\* before left it: the dissectors offered are children of the root.
C28_HepDispatchStartsAtRoot ==
    (hepin.state = "ok" /\ nrecv > 0) =>
        /\ trace # <<>>
        /\ trace[1].ev = "enter"
        /\ trace[1].node = RootNode
        /\ \A i \in DOMAIN trace :
              (trace[i].ev \in {"call", "skip"}
                  /\ trace[i].parent = trace[1].node)
                  => parser.nodes[trace[i].node].parent = RootNode

\* A second datagram was received and dispatched from the root
C28_Witness ==
    /\ hepin.state = "ok"
    /\ nrecv = 2
    /\ trace # <<>>
    /\ trace[1].node = RootNode

\* C29: a parser holds at most one dissector instance per protocol id and
\* calls its init at most once, however many tree nodes refer to the
\* protocol: every node of a protocol refers to the one instance kept under
\* the protocol's id.
C29_OneInstancePerProtocol ==
    \A id \in Protos :
        /\ parser.ninit[id] <= 1
        /\ parser.ninit[id] = 1 <=> id \in parser.dissectors
        /\ \A n \in TreeNodes :
              parser.nodes[n].data = id =>
                  id \in parser.dissectors /\ parser.ninit[id] = 1

\* SIP has a node under UDP and a node under TCP, and was initialised once
C29_Witness ==
    /\ parser.ninit["SIP"] = 1
    /\ \E n1, n2 \in TreeNodes :
          /\ parser.nodes[n1].data = "SIP"
          /\ parser.nodes[n2].data = "SIP"
          /\ parser.nodes[parser.nodes[n1].parent].data = "UDP"
          /\ parser.nodes[parser.nodes[n2].parent].data = "TCP"

-----------------------------------------------------------------------------
\* Tree construction step by step, for any child relation.
\* packet_parser_dissector_init calls itself for every child id of the
\* dissector it appended (parser.c:176-179).  tree.stack holds the calls in
\* progress, innermost first: the node whose children are being added and
\* the child ids the loop has not reached yet.  tree.subs is the
\* subdissectors list of every protocol, tree.root the protocol the
\* construction was started with.

MaxTreeNodes == 5

\* The order child ids are registered in
TreeOrder == <<"IP", "UDP", "SIP">>

\* Every child relation over TreeProtos, a cyclic one included
TreeSubs ==
    { [id \in TreeProtos |-> SelectSeq(TreeOrder, LAMBDA c : c \in f[id])] :
        f \in [TreeProtos -> SUBSET TreeProtos] }

\* The defaults with any of the protocols of TreeProtos switched off
TreeSettings ==
    { [n \in SettingNames |-> IF n \in off THEN "off" ELSE SettingDefaults[n]] :
        off \in SUBSET {ProtoSetting(id) : id \in TreeProtos} }

\* A construction that appends a node for the first reference to a protocol
\* only
DissectorInitNodeOncePerProtocol(s, b, p, parent, id) ==
    IF id \in p.dissectors \/ ~DissectorNew(s, b, id)
    THEN p
    ELSE NodeAppend([p EXCEPT !.dissectors = @ \cup {id},
                              !.ninit[id] = @ + 1], parent, id)

\* packet_parser_dissector_init up to its loop over the children: the
\* parser is left as it was when no dissector is created, and has one more
\* node otherwise
DissectorInitNode(s, b, p, parent, id) ==
    IF id \notin p.dissectors /\ ~DissectorNew(s, b, id)
    THEN p
    ELSE NodeAppend(IF id \in p.dissectors THEN p
                    ELSE [p EXCEPT !.dissectors = @ \cup {id},
                                   !.ninit[id] = @ + 1], parent, id)

InitTree ==
    /\ settings \in TreeSettings
    /\ nsets = 0
    /\ build = [ssl |-> FALSE, ipv6 |-> TRUE, little_endian |-> TRUE]
    /\ parser = packet_parser_new
    /\ hepin = [NoInput EXCEPT !.state = "other"]
    /\ trace = <<>>
    /\ nrecv = 0
    /\ hepout = NoOutput
    /\ wire = <<>>
    /\ env = [sock |-> TRUE, peer |-> TRUE]
    /\ msgs = <<>>
    /\ msgq = NoQuery
    /\ helper = NoCall
    /\ store = EmptyStore
    /\ sock = EmptySocket
    /\ conf = NoConf
    /\ proc = Running
    /\ ui = NoPrompt
    /\ calls = NoCalls
    /\ ipdata = NoAssembly
    /\ clw = NoWin
    /\ togg = NoToggle
    /\ hepbuf = NoWrite
    /\ nav = NoNav
    /\ \E root \in TreeProtos, subs \in TreeSubs :
          tree = [root |-> root, subs |-> subs,
                  stack |-> << [node |-> RootNode, rest |-> <<root>>] >>]

\* One step of the construction: the innermost loop calls
\* packet_parser_dissector_init for its next child id, or ends and returns
PacketParserDissectorInit ==
    /\ tree.stack # <<>>
    /\ Len(parser.nodes) <= MaxTreeNodes
    /\ LET top == Head(tree.stack)
       IN  IF top.rest = <<>>
           THEN /\ tree' = [tree EXCEPT !.stack = Tail(@)]
                /\ UNCHANGED parser
           ELSE LET id == Head(top.rest)
                    p2 == DissectorInitNode(settings, build, parser,
                                            top.node, id)
                    outer == << [top EXCEPT !.rest = Tail(@)] >>
                             \o Tail(tree.stack)
                IN  /\ parser' = p2
                    /\ tree' = [tree EXCEPT !.stack =
                                  IF Len(p2.nodes) > Len(parser.nodes)
                                  THEN << [node |-> Len(p2.nodes),
                                           rest |-> tree.subs[id]] >>
                                       \o outer
                                  ELSE outer]
    /\ UNCHANGED <<settings, nsets, build, hepin, trace, nrecv, outVars, env,
                   msgVars, sock, conf, proc, ui, calls, ipdata, nav,
                   hepbuf,
                   togg,
                   clw>>

NextTree == PacketParserDissectorInit

\* A call in progress is carried on: the construction runs to its end unless
\* it never ends
SpecTree == InitTree /\ [][NextTree]_vars /\ WF_vars(NextTree)

\* The child ids of a subdissectors list
TreeChildIds(subs) == {subs[i] : i \in DOMAIN subs}

RECURSIVE TreeReach(_, _)
\* The protocols reached from those of S in at most n steps of the child
\* relation
TreeReach(S, n) ==
    IF n = 0 THEN S
    ELSE TreeReach(S \cup UNION {TreeChildIds(tree.subs[x]) : x \in S}, n - 1)

\* No protocol reached from the root reaches itself
TreeAcyclic ==
    /\ tree.root \in TreeProtos
    /\ \A x \in TreeReach({tree.root}, Cardinality(TreeProtos)) :
          x \notin TreeReach(TreeChildIds(tree.subs[x]), Cardinality(TreeProtos))

TreeDone == tree.root \in TreeProtos /\ tree.stack = <<>>

RECURSIVE TreePaths(_)
RECURSIVE TreePathsOver(_, _)
\* The number of paths of the child relation that start at id and go
\* through protocols a dissector is created for
TreePaths(id) ==
    IF ~DissectorNew(settings, build, id) THEN 0
    ELSE 1 + TreePathsOver(tree.subs[id], 1)

TreePathsOver(subs, i) ==
    IF i > Len(subs) THEN 0
    ELSE TreePaths(subs[i]) + TreePathsOver(subs, i + 1)

RECURSIVE NodePath(_)
\* The protocols on the way from the root to node n
NodePath(n) ==
    IF n = RootNode THEN <<>>
    ELSE Append(NodePath(parser.nodes[n].parent), parser.nodes[n].data)

\* C30: when the child relation reached from the root protocol has no
\* cycle the construction of the tree ends, and the tree built has one node
\* for every path from the root through protocols a dissector is created
\* for, none of them deeper than the number of protocols.
C30_AcyclicRelationBuildsFiniteTree ==
    /\ TreeAcyclic ~> TreeDone
    /\ [](TreeAcyclic =>
            /\ \A n \in TreeNodes :
                  /\ Len(NodePath(n)) <= Cardinality(TreeProtos)
                  /\ NodePath(n)[1] = tree.root
                  /\ \A j \in 1..Len(NodePath(n)) :
                        /\ DissectorNew(settings, build, NodePath(n)[j])
                        /\ j > 1 => NodePath(n)[j]
                                      \in TreeChildIds(tree.subs[NodePath(n)[j - 1]])
            /\ \A n1, n2 \in TreeNodes :
                  n1 # n2 => NodePath(n1) # NodePath(n2)
            /\ Len(parser.nodes) - 1 <= TreePaths(tree.root)
            /\ TreeDone => Len(parser.nodes) - 1 = TreePaths(tree.root))

\* A construction over a relation without a cycle has ended with two nodes
\* of one protocol, reached on two paths
C30_Witness ==
    /\ TreeAcyclic
    /\ TreeDone
    /\ \E n1, n2 \in TreeNodes :
          /\ n1 # n2
          /\ parser.nodes[n1].data = parser.nodes[n2].data

\* The offset reached by walking the chunks by their length fields
RECURSIVE HepWalk(_, _)
HepWalk(chunks, off) ==
    IF chunks = <<>> THEN off
    ELSE HepWalk(Tail(chunks), off + Head(chunks).length)

\* C31: the buffer capture_output_hep_write builds is a well-formed sequence
\* of chunks: the length field of every chunk is 6 plus the size of its
\* data, the bytes the chunk takes in the buffer, and walking the chunks by
\* their length fields from offset 6 ends at the end of the buffer.
C31_ChunksWellFormed ==
    hepbuf.data # NoBuffer =>
        /\ \A i \in DOMAIN hepbuf.data.chunks :
              hepbuf.data.chunks[i].length = hepbuf.data.chunks[i].size
        /\ HepWalk(hepbuf.data.chunks, SizeofCtrl) = BufferLen(hepbuf.data)


\* C32: capture_output_hep_write sends nothing unless the packet carries IP,
\* UDP and SIP data: for a packet that lacks one of them no buffer is built,
\* no datagram is sent and the sender is left as it was.
C32_NothingSentWithoutLayers ==
    (hepbuf.called /\ ~(hepbuf.pkt.ip.present /\ hepbuf.pkt.udp.present
                        /\ hepbuf.pkt.sip.present)) =>
        /\ ~hepbuf.sent
        /\ hepbuf.data = NoBuffer
        /\ wire = <<>>
        /\ hepout = capture_output_hep(settings, NullUrl, TRUE, TRUE)

\* The write was called with a packet that has IP and SIP data and no UDP
\* data, as SIP carried over TCP has
C32_Witness ==
    /\ hepbuf.called
    /\ hepbuf.pkt.ip.present
    /\ hepbuf.pkt.sip.present
    /\ ~hepbuf.pkt.udp.present
    /\ wire = <<>>


\* C33: a failed read in capture_input_hep_receive makes no packet and
\* removes the listener from the event loop: once a read has failed no
\* datagram of the listener is dissected any more; a read that succeeds
\* keeps the listener active.
C33_ReceiveFailureRemovesListener ==
    [][/\ sock.failed =>
             /\ nrecv' = nrecv
             /\ trace' = trace
             /\ sock'.handled = sock.handled
             /\ ~hepin'.source
       /\ (~sock.failed /\ sock'.failed) =>
             /\ nrecv' = nrecv
             /\ trace' = trace
             /\ sock'.handled = sock.handled
             /\ ~hepin'.source
       /\ nrecv' = nrecv + 1 => hepin'.source]_vars

\* A read failed after one datagram had been dissected, and datagrams that
\* arrived wait in the socket of the removed listener
C33_Witness ==
    /\ sock.failed
    /\ ~hepin.source
    /\ nrecv >= 1
    /\ Len(sock.queue) >= 2


-----------------------------------------------------------------------------
\* setting_toggle (setting.c), on settings of the four formats.  In this
\* part settings holds the values of ToggleNames.

MaxToggles == 4

\* A boolean, two enums, a number and a string of the table of settings_init
ToggleNames ==
    {"syntax", "background", "colormode", "capture.limit", "capture.device"}

\* Setting.fmt, as setting_bool_new, setting_enum_new, setting_number_new
\* and setting_string_new set it
SettingFmt(id) ==
    CASE id = "syntax"         -> "BOOLEAN"
      [] id = "background"     -> "ENUM"
      [] id = "colormode"      -> "ENUM"
      [] id = "capture.limit"  -> "NUMBER"
      [] id = "capture.device" -> "STRING"

\* Setting.valuelist: g_strsplit of the list given to the constructor
SettingValuelist(id) ==
    CASE id = "syntax"     -> <<"on", "off">>
      [] id = "background" -> <<"dark", "default">>
      [] id = "colormode"  -> <<"request", "cseq", "callid">>
      [] OTHER             -> <<>>

\* The values the settings may hold when setting_toggle is called: the
\* default, which comes first, or one a resource file or an option gave
ToggleValues(id) ==
    CASE id = "syntax"         -> {"on", "off", "yes", "no", ""}
      [] id = "background"     -> {"dark", "default", "blue"}
      [] id = "colormode"      -> {"request", "cseq", "callid", ""}
      [] id = "capture.limit"  -> {"20000", "0"}
      [] id = "capture.device" -> {"any", ""}

RECURSIVE EnumNextLoopNoWrap(_, _, _)
\* A loop that returns NULL after the last value
EnumNextLoopNoWrap(list, value, i) ==
    IF i > Len(list) THEN "NULL"
    ELSE IF list[i] = value
    THEN IF i < Len(list) THEN list[i + 1] ELSE "NULL"
    ELSE EnumNextLoopNoWrap(list, value, i + 1)

RECURSIVE EnumNextLoop(_, _, _)
\* The loop of setting_enum_next over the value list: the value after the
\* first one equal to value, the first of the list after the last one, NULL
\* when no value of the list is equal to value
EnumNextLoop(list, value, i) ==
    IF i > Len(list) THEN "NULL"
    ELSE IF list[i] = value
    THEN IF i < Len(list) THEN list[i + 1] ELSE list[1]
    ELSE EnumNextLoop(list, value, i + 1)

\* setting_enum_next(id, value)
setting_enum_next(id, value) ==
    IF SettingFmt(id) # "ENUM" THEN "NULL"
    ELSE IF value = "NULL" THEN SettingValuelist(id)[1]
    ELSE EnumNextLoop(SettingValuelist(id), value, 1)

\* setting_toggle(id)
setting_toggle(s, id) ==
    CASE SettingFmt(id) = "BOOLEAN" ->
            IF setting_enabled(s, id) THEN setting_set_value(s, id, "off")
            ELSE setting_set_value(s, id, "on")
      [] SettingFmt(id) = "ENUM" ->
            setting_set_value(s, id, setting_enum_next(id, s[id]))
      [] OTHER -> s

InitToggle ==
    /\ settings \in [ToggleNames -> UNION {ToggleValues(id) : id \in ToggleNames}]
    /\ \A id \in ToggleNames : settings[id] \in ToggleValues(id)
    /\ nsets = 0
    /\ build = [ssl |-> FALSE, ipv6 |-> TRUE, little_endian |-> TRUE]
    /\ parser = packet_parser_new
    /\ hepin = NoInput
    /\ trace = <<>>
    /\ nrecv = 0
    /\ hepout = NoOutput
    /\ wire = <<>>
    /\ env = [sock |-> TRUE, peer |-> TRUE]
    /\ msgs = <<>>
    /\ msgq = NoQuery
    /\ helper = NoCall
    /\ store = EmptyStore
    /\ sock = EmptySocket
    /\ conf = NoConf
    /\ proc = Running
    /\ ui = NoPrompt
    /\ calls = NoCalls
    /\ ipdata = NoAssembly
    /\ clw = NoWin
    /\ nav = NoNav
    /\ tree = NoTree
    /\ hepbuf = NoWrite
    /\ togg = NoToggle

\* setting_toggle(id) is called, over and over for the same setting
SettingToggle ==
    /\ togg.n < MaxToggles
    /\ \E id \in ToggleNames :
          /\ togg.id \in {"NULL", id}
          /\ settings' = setting_toggle(settings, id)
          /\ togg' = [id |-> id,
                      orig |-> IF togg.n = 0 THEN settings[id] ELSE togg.orig,
                      before |-> settings[id],
                      n |-> togg.n + 1]
    /\ UNCHANGED <<nsets, build, parser, hepin, trace, nrecv, outVars, env,
                   msgVars, sock, conf, proc, ui, calls, ipdata, nav, tree,
                   hepbuf,
                   clw>>

NextToggle == SettingToggle

SpecToggle == InitToggle /\ [][NextToggle]_vars

\* The values of list at the places after those of value, the first place
\* coming after the last
ListedAfter(list, value) ==
    {list[(i % Len(list)) + 1] : i \in {k \in DOMAIN list : list[k] = value}}

\* C34: setting_toggle flips whether a boolean setting is enabled on every
\* call; it moves an enum setting whose value is in its value list to the
\* next value of the list, from the last to the first, so that the value
\* stays in the list and as many calls as the list has values bring the
\* first value back; number and string settings keep their value.
C34_ToggleFlipsOrAdvances ==
    togg.n > 0 =>
        LET id == togg.id
            list == SettingValuelist(id)
            listed(v) == \E i \in DOMAIN list : list[i] = v
        IN  /\ SettingFmt(id) = "BOOLEAN" =>
                  (settings[id] \in {"on", "yes"})
                      = ~(togg.before \in {"on", "yes"})
            /\ (SettingFmt(id) = "ENUM" /\ listed(togg.before)) =>
                  /\ settings[id] \in ListedAfter(list, togg.before)
                  /\ listed(settings[id])
            /\ (SettingFmt(id) = "ENUM" /\ listed(togg.orig)
                   /\ togg.n = Len(list)) => settings[id] = togg.orig
            /\ SettingFmt(id) \in {"NUMBER", "STRING"} =>
                  settings[id] = togg.before /\ settings[id] = togg.orig
            /\ \A other \in ToggleNames \ {id} :
                  settings[other] \in ToggleValues(other)

\* Three calls on the three-valued enum have brought its value back, the
\* last of them from the last value of the list to the first
C34_Witness ==
    /\ togg.id = "colormode"
    /\ togg.n = 3
    /\ togg.orig = "request"
    /\ togg.before = "callid"
    /\ settings["colormode"] = "request"


-----------------------------------------------------------------------------
\* setting_read_file on files with lines it cannot apply

MaxLines == 3

\* Lines of a resource file: three that set a setting, one that names a
\* setting that does not exist, and lines of two fields and of one
BadFileLines ==
    {ConfLine("set", "eep.send.address", "10.0.0.9"),
     ConfLine("set", "eep.send.pass", "k"),
     ConfLine("set", "eep.send.pass", "key"),
     ConfLine("set", "no.such.setting", "k"),
     ConfLine("set", "eep.send.pass", "NULL"),
     ConfLine("set", "NULL", "NULL")}

\* The file of the options holds up to MaxLines of these lines, and is the
\* only file read
InitRead ==
    /\ settings = [n \in SettingNames |-> ""]
    /\ nsets = 0
    /\ build = [ssl |-> FALSE, ipv6 |-> TRUE, little_endian |-> TRUE]
    /\ parser = packet_parser_new
    /\ hepin = NoInput
    /\ trace = <<>>
    /\ nrecv = 0
    /\ hepout = NoOutput
    /\ wire = <<>>
    /\ env = [sock |-> TRUE, peer |-> TRUE]
    /\ msgs = <<>>
    /\ msgq = NoQuery
    /\ helper = NoCall
    /\ store = EmptyStore
    /\ sock = EmptySocket
    /\ \E n \in 1..MaxLines : \E lines \in [1..n -> BadFileLines] :
          conf = [inited |-> FALSE, use_defaults |-> TRUE, file |-> TRUE,
                  SNGREPRC |-> FALSE, homedir |-> FALSE,
                  files |-> [etc |-> NoFile, local |-> NoFile,
                             env |-> NoFile, home |-> NoFile,
                             opt |-> [missing |-> FALSE, lines |-> lines]]]
    /\ proc = Running
    /\ ui = NoPrompt
    /\ calls = NoCalls
    /\ ipdata = NoAssembly
    /\ clw = NoWin
    /\ nav = NoNav
    /\ tree = NoTree
    /\ hepbuf = NoWrite
    /\ togg = NoToggle

SpecRead == InitRead /\ [][NextConf]_vars

\* The positions of the lines of three fields that set setting n
AppliedLinesFor(file, n) ==
    {i \in DOMAIN file.lines :
        /\ file.lines[i].type \in {"set", "SET"}
        /\ file.lines[i].option = n
        /\ file.lines[i].value # "NULL"}

winRest ==
    <<settings, nsets, build, parser, hepin, trace, nrecv, outVars, env,
      msgVars, sock, conf, proc, ui, ipdata, nav, tree, hepbuf, togg>>

\* The rows of the list the terminal can show, header and scrollbar taken off
MaxListh == 2

\* The values of setting_get_intvalue(SETTING_CL_SCROLLSTEP): the default, a
\* step of one line, no step, and -1 (an empty value, or the number -1)
ScrollSteps == {4, 1, 0, -1}

\* The keys that move the cursor
MoveKeys ==
    {"DOWN", "UP", "HNPAGE", "NPAGE", "HPPAGE", "PPAGE", "BEGIN", "END"}

\* A guint is held by its two's complement representative: -1 is UINT_MAX.
\* x / 2 of the guint x
GuintHalf(x) == IF x >= 0 THEN x \div 2 ELSE 2147483647 + (1 + (x \div 2))

\* g_ptr_array_len(info->dcalls)
DcallsLen(info) == Len(info.dcalls)

\* The loop of a move down: the cursor goes down one call at a time until it
\* is at line or on the last call, and the list scrolls when the cursor
\* leaves its last row
RECURSIVE CallListMoveDown(_, _)
CallListMoveDown(info, line) ==
    IF ~(info.cur_idx < line) THEN info
    ELSE IF info.cur_idx = DcallsLen(info) - 1 THEN info
    ELSE LET cur == info.cur_idx + 1
         IN  CallListMoveDown(
                 [info EXCEPT !.cur_idx = cur,
                              !.pos = IF cur - info.pos = info.listh
                                      THEN @ + 1 ELSE @], line)

\* The loop of a move up: the cursor goes up one call at a time until it is
\* at line or on the first call, and the list scrolls when the cursor is on
\* its first row
RECURSIVE CallListMoveUp(_, _)
CallListMoveUp(info, line) ==
    IF ~(info.cur_idx > line) THEN info
    ELSE IF info.cur_idx = 0 THEN info
    ELSE CallListMoveUp(
             [info EXCEPT !.pos = IF info.cur_idx = info.pos
                                  THEN @ - 1 ELSE @,
                          !.cur_idx = @ - 1], line)

\* call_list_move: the cursor goes to line (a gint)
call_list_move(info, line) ==
    IF info.cur_idx = line THEN info
    ELSE IF info.cur_idx < line THEN CallListMoveDown(info, line)
    ELSE CallListMoveUp(info, line)

\* call_list_move_up: gint newpos = cur_idx - times, not below 0. The
\* difference is taken modulo 2^32: it is cur_idx + 1 when times is UINT_MAX
call_list_move_up(info, times) ==
    LET newpos == info.cur_idx - times
    IN  call_list_move(info, IF newpos < 0 THEN 0 ELSE newpos)

\* call_list_move_down: guint newpos = cur_idx + times, the last index when
\* it is not below the length; on an empty list the last index is UINT_MAX,
\* which call_list_move takes as -1
call_list_move_down(info, times) ==
    LET len == DcallsLen(info)
        over == IF times < 0 THEN info.cur_idx + times < 0
                ELSE times >= len - info.cur_idx
    IN  call_list_move(info, IF over THEN len - 1
                             ELSE info.cur_idx + times)

\* The cursor after one of the keys that move it
CallListMoveKey(info, key) ==
    LET rnpag_steps == info.steps
    IN  CASE key = "DOWN" -> call_list_move_down(info, 1)
          [] key = "UP" -> call_list_move_up(info, 1)
          [] key = "HNPAGE" ->
                 call_list_move_down(info, GuintHalf(rnpag_steps))
          [] key = "NPAGE" -> call_list_move_down(info, rnpag_steps)
          [] key = "HPPAGE" ->
                 call_list_move_up(info, GuintHalf(rnpag_steps))
          [] key = "PPAGE" -> call_list_move_up(info, rnpag_steps)
          [] key = "BEGIN" -> call_list_move(info, 0)
          [] key = "END" -> call_list_move(info, DcallsLen(info) - 1)

\* filter_check_call: the calls the display filter lets through; the filter
\* text "odd" stands for a filter that matches the calls of odd Call-ID
FilterCheckCall(filter, call) == filter = "" \/ call % 2 = 1

\* call_list_draw_list: the displayed calls are taken anew from the storage
\* through the display filter; with autoscroll the cursor goes to the last
\* call, or to the first one when the list is sorted downwards
call_list_draw_list(info, cs) ==
    LET drawn ==
            [info EXCEPT !.dcalls =
                SelectSeq(cs.list,
                          LAMBDA call : FilterCheckCall(info.filter, call))]
    IN  IF ~drawn.autoscroll THEN drawn
        ELSE IF drawn.asc THEN call_list_move(drawn, DcallsLen(drawn) - 1)
        ELSE call_list_move(drawn, 0)

\* The call list is drawn over a list of calls that does not change: none,
\* or the calls 1..n
InitMove ==
    /\ settings = SettingDefaults
    /\ nsets = 0
    /\ build = [ssl |-> FALSE, ipv6 |-> TRUE, little_endian |-> TRUE]
    /\ parser = packet_parser_new
    /\ hepin = NoInput
    /\ trace = <<>>
    /\ nrecv = 0
    /\ hepout = NoOutput
    /\ wire = <<>>
    /\ env = [sock |-> TRUE, peer |-> TRUE]
    /\ msgs = <<>>
    /\ msgq = NoQuery
    /\ helper = NoCall
    /\ store = EmptyStore
    /\ sock = EmptySocket
    /\ conf = NoConf
    /\ proc = Running
    /\ ui = NoPrompt
    /\ \E n \in 0..MaxCallIds :
          /\ calls = [NoCalls EXCEPT !.limit = MaxCallIds,
                                     !.list = [i \in 1..n |-> i],
                                     !.ingested = n]
          /\ \E listh \in 1..MaxListh, steps \in ScrollSteps,
                asc \in BOOLEAN :
                clw = [NoWin EXCEPT !.dcalls = [i \in 1..n |-> i],
                                    !.listh = listh,
                                    !.steps = steps,
                                    !.asc = asc]
    /\ ipdata = NoAssembly
    /\ nav = NoNav
    /\ tree = NoTree
    /\ hepbuf = NoWrite
    /\ togg = NoToggle

\* One of the keys that move the cursor is pressed in the call list; the key
\* turns autoscroll off
CallListKeyMove ==
    /\ ~calls.flow.open
    /\ \E moved \in {CallListMoveKey(clw, key) : key \in MoveKeys} :
          /\ moved.cur_idx <= MaxCallIds
          /\ clw' = [moved EXCEPT !.autoscroll = FALSE]
    /\ UNCHANGED <<calls, winRest>>

\* ACTION_AUTOSCROLL: autoscroll is turned on or off
CallListKeyAutoscroll ==
    /\ ~calls.flow.open
    /\ clw' = [clw EXCEPT !.autoscroll = ~@]
    /\ UNCHANGED <<calls, winRest>>

\* The call list is drawn again
CallListDrawList ==
    /\ ~calls.flow.open
    /\ clw' = call_list_draw_list(clw, calls)
    /\ UNCHANGED <<calls, winRest>>

NextMove ==
    \/ CallListKeyMove
    \/ CallListKeyAutoscroll
    \/ CallListDrawList

SpecMove == InitMove /\ [][NextMove]_vars

\* C36: after any sequence of cursor moves over a list that does not change
\* and is not empty, the scroll position is not negative and not below the
\* cursor's index, the cursor is on a displayed call, and the cursor is on
\* one of the visible rows; over an empty list the cursor stays at 0.
C36_CursorStaysInsideTheList ==
    IF clw.dcalls # <<>>
    THEN /\ 0 <= clw.pos
         /\ clw.pos <= clw.cur_idx
         /\ clw.cur_idx <= DcallsLen(clw) - 1
         /\ clw.cur_idx - clw.pos < clw.listh
    ELSE clw.cur_idx = 0

\* ---------------------------------------------------------------------------
\* The call list window: the calls read through the cursor
\* ---------------------------------------------------------------------------

\* The texts of the display filter: none, and one that matches some calls
FilterTexts == {"", "odd"}

\* clear_all: no call stays in the storage
storage_calls_clear(cs) ==
    [cs EXCEPT !.list = <<>>,
               !.xcalls = {},
               !.evicted = @ \cup StoredCalls(cs)]

\* clear_soft: the calls that are displayed stay in the storage
storage_calls_clear_soft(cs, filter) ==
    LET kept == {call \in StoredCalls(cs) : FilterCheckCall(filter, call)}
    IN  [cs EXCEPT !.list = SelectSeq(cs.list, LAMBDA call : call \in kept),
                   !.xcalls = {p \in @ : p[1] \in kept /\ p[2] \in kept},
                   !.evicted = @ \cup (StoredCalls(cs) \ kept)]

\* A clear of the window that leaves the selection as it is
call_list_win_clear_cursor_only(info, group) ==
    [info |-> [info EXCEPT !.pos = 0, !.cur_idx = 0], group |-> group]

\* call_list_win_clear: the cursor and the scroll go to the first call and
\* the selection is emptied; the displayed calls stay until the next draw
call_list_win_clear(info, group) ==
    [info |-> [info EXCEPT !.pos = 0, !.cur_idx = 0],
     group |-> call_group_remove_all(group)]

\* g_ptr_array_index(info->dcalls, info->cur_idx): the call under the
\* cursor; an index outside the array reads whatever lies there
CallsAtCursor(info) ==
    IF info.cur_idx \in 0..(DcallsLen(info) - 1)
    THEN {info.dcalls[info.cur_idx + 1]}
    ELSE CallIds

\* What a read through the cursor finds: whether the index is inside the
\* displayed list and whether the call read is held by the storage
CallRead(info, cs, call) ==
    [done |-> TRUE,
     inside |-> info.cur_idx \in 0..(DcallsLen(info) - 1),
     held |-> call \in StoredCalls(cs)]

\* A select that only adds the call to the selection
call_list_select_add_only(group, call) == call_group_add(group, call)

\* ACTION_SELECT: the call leaves the selection when it is in it, and
\* enters it otherwise
call_list_select(group, call) ==
    IF call_group_exists(group, call) THEN call_group_remove(group, call)
    ELSE call_group_add(group, call)

\* ACTION_SELECT on the call under the cursor; nothing on an empty list
CallListKeySelect ==
    /\ ~calls.flow.open
    /\ DcallsLen(clw) # 0
    /\ \E call \in CallsAtCursor(clw) :
          /\ calls' = [calls EXCEPT !.group = call_list_select(@, call)]
          /\ clw' = [clw EXCEPT !.read = CallRead(clw, calls, call)]
    /\ UNCHANGED winRest

\* The groups after ACTION_SHOW_FLOW, ACTION_SHOW_FLOW_EX or ACTION_SHOW_RAW:
\* the calls are added to a clone of the selection, which the opened window
\* gets; the selection is another group and has the calls it had
CallListOpenGroup(cs, call, extended) ==
    [selection |-> cs.group,
     group |-> CallListFlowGroup(cs, call, extended)]

\* ACTION_SHOW_FLOW, ACTION_SHOW_FLOW_EX and ACTION_SHOW_RAW on the call
\* under the cursor; nothing on an empty list. The window that opens gets a
\* clone of the selection
CallListKeyShowFlow ==
    /\ ~calls.flow.open
    /\ DcallsLen(clw) # 0
    /\ \E call \in CallsAtCursor(clw),
          action \in {"SHOW_FLOW", "SHOW_FLOW_EX", "SHOW_RAW"} :
          LET extended == action = "SHOW_FLOW_EX"
              opened == CallListOpenGroup(calls, call, extended)
          IN  /\ calls' = [calls EXCEPT
                              !.group = opened.selection,
                              !.flow =
                                  [open |-> TRUE,
                                   callid |-> IF extended THEN call ELSE 0,
                                   linked |-> IF extended
                                              THEN CallXcalls(calls, call)
                                              ELSE {},
                                   group |-> opened.group]]
              /\ clw' = [clw EXCEPT !.read = CallRead(clw, calls, call)]
    /\ UNCHANGED winRest

\* ACTION_CLEAR_CALLS and ACTION_CLEAR_CALLS_SOFT: the storage is cleared
\* and then the window
CallListKeyClearCalls ==
    /\ ~calls.flow.open
    /\ \E soft \in BOOLEAN :
          LET cs == IF soft THEN storage_calls_clear_soft(calls, clw.filter)
                    ELSE storage_calls_clear(calls)
              cleared == call_list_win_clear(clw, cs.group)
          IN  /\ calls' = [cs EXCEPT !.group = cleared.group]
              /\ clw' = cleared.info
    /\ UNCHANGED winRest

\* A key that edits the text of the display filter: the window is cleared
\* and the text is the display filter from then on
CallListHandleFormKey ==
    /\ ~calls.flow.open
    /\ \E dfilter \in FilterTexts :
          LET cleared == call_list_win_clear(clw, calls.group)
          IN  /\ calls' = [calls EXCEPT !.group = cleared.group]
              /\ clw' = [cleared.info EXCEPT !.filter = dfilter]
    /\ UNCHANGED winRest

\* The capture limit and the number of Call-IDs the call list is shown over
MaxWinLimit == 2
MaxWinCalls == 3

\* The call list is shown over an empty storage whose capture.limit was set
InitWin ==
    /\ settings = SettingDefaults
    /\ nsets = 0
    /\ build = [ssl |-> FALSE, ipv6 |-> TRUE, little_endian |-> TRUE]
    /\ parser = packet_parser_new
    /\ hepin = NoInput
    /\ trace = <<>>
    /\ nrecv = 0
    /\ hepout = NoOutput
    /\ wire = <<>>
    /\ env = [sock |-> TRUE, peer |-> TRUE]
    /\ msgs = <<>>
    /\ msgq = NoQuery
    /\ helper = NoCall
    /\ store = EmptyStore
    /\ sock = EmptySocket
    /\ conf = NoConf
    /\ proc = Running
    /\ ui = NoPrompt
    /\ calls = [NoCalls EXCEPT !.limit = MaxWinLimit]
    /\ ipdata = NoAssembly
    /\ clw = NoWin
    /\ nav = NoNav
    /\ tree = NoTree
    /\ hepbuf = NoWrite
    /\ togg = NoToggle

\* A message reaches the storage while the call list is shown
StorageCheckPacketWin ==
    /\ calls.ingested < MaxWinCalls
    /\ StorageCheckPacketXcall

NextWin ==
    \/ StorageCheckPacketWin
    \/ CallListDrawList
    \/ CallListKeyMove
    \/ CallListKeySelect
    \/ CallListKeyShowFlow
    \/ CallFlowClose
    \/ CallListKeyClearCalls
    \/ CallListHandleFormKey

SpecWin == InitWin /\ [][NextWin]_vars

\* C37: whatever the order of ingestion (with its evictions), clears, draws
\* of the list and keys, a call read through the cursor (select, show flow,
\* show raw) is read at an index inside the displayed list and is a call the
\* storage holds at that time.
C37_CursorReadsAStoredCall ==
    clw.read.done => clw.read.inside /\ clw.read.held

\* The calls the step takes out of the storage
RemovedCalls == StoredCalls(calls) \ StoredCalls(calls')

\* C38: right after the call list has cleared the storage (clear all or
\* soft clear) and right after a key has edited the display filter, the
\* cursor and the scroll position are 0 and the selection is empty, so that
\* the selection holds none of the calls the clear removed.
C38_ClearResetsCursorAndSelection ==
    [][CallListKeyClearCalls \/ CallListHandleFormKey =>
          /\ clw'.cur_idx = 0
          /\ clw'.pos = 0
          /\ call_group_count(calls'.group) = 0
          /\ \A call \in RemovedCalls : ~call_group_exists(calls'.group, call)
      ]_vars

\* A call of a list of several calls was selected, and the storage has been
\* cleared since: no call is stored or selected, the cursor and the scroll
\* are on the first row, and the list has not been drawn again
C38_Witness ==
    /\ calls.list = <<>>
    /\ calls.evicted # {}
    /\ calls.group = {}
    /\ clw.cur_idx = 0
    /\ clw.pos = 0
    /\ DcallsLen(clw) > 1
    /\ clw.read.done
    /\ clw.read.inside
    /\ clw.read.held

\* The call under the cursor when the cursor is on a displayed call
CallAtCursor(info) == info.dcalls[info.cur_idx + 1]

\* The cursor is on a displayed call
CursorInside(info) == info.cur_idx \in 0..(DcallsLen(info) - 1)

\* C39: select on a highlighted call toggles the call's membership in the
\* selection and leaves every other call's membership as it was, so that a
\* second select on the same call restores the selection; opening the call
\* flow, the extended call flow or the raw view leaves the selection as it
\* was, also when calls are added to the group the opened window gets.
C39_SelectTogglesAndFlowWorksOnAClone ==
    [][/\ CallListKeySelect /\ CursorInside(clw) =>
              LET call == CallAtCursor(clw)
              IN  /\ call_group_exists(calls'.group, call)
                         = ~call_group_exists(calls.group, call)
                  /\ calls'.group \ {call} = calls.group \ {call}
                  /\ call_list_select(calls'.group, call) = calls.group
       /\ CallListKeyShowFlow => calls'.group = calls.group
      ]_vars

\* The extended call flow was opened from a call with a linked call while
\* another call was selected: the window's group has the linked call, the
\* selection does not
C39_Witness ==
    /\ calls.flow.open
    /\ calls.flow.callid # 0
    /\ calls.flow.linked # {}
    /\ calls.group # {}
    /\ calls.flow.group # calls.group
    /\ clw.read.inside
    /\ clw.read.held

\* C40: the anchor Call-ID of the group built for an extended call flow
\* names a call that is a member of that group, whatever the selection was.
C40_AnchorIsAMemberOfItsGroup ==
    calls.flow.open /\ calls.flow.callid # 0 /\ clw.read.inside =>
        call_group_exists(calls.flow.group, calls.flow.callid)

=============================================================================
